---- MODULE Spec2Model ----
(***************************************************************************)
(* JSW Paint Estimator, browser front end.                                 *)
(*                                                                         *)
(* One page of the front end is loaded at a time (variable view).  Each    *)
(* page is a set of event handlers over module-level variables and DOM     *)
(* elements; a handler runs to completion, and FileReader loads and fetch  *)
(* calls complete later, in any order.  Pending loads and outstanding      *)
(* requests are therefore bags, and every completion is its own action.    *)
(*                                                                         *)
(* Numbers are exact rationals [n, d]; NaN is a value of its own.          *)
(***************************************************************************)
EXTENDS Integers, Sequences, FiniteSets, Bags, TLC

VARIABLES
    view,               \* the page that is loaded
    \* ---- image-estimation.js
    currentMode,        \* 'single' | 'multi'
    uploadedImages,     \* sequence of files
    singlePreviewImg,   \* #single-preview-img src (the file it shows)
    singlePreview,      \* #single-preview displayed
    singleDropZone,     \* #single-drop-zone displayed
    wallGrid,           \* #wall-grid children, in DOM order
    multiPreviewGrid,   \* #multi-preview-grid displayed
    multiDropZone,      \* #multi-drop-zone displayed
    \* ---- manual-estimation.js
    manualForm,         \* text of the inputs of #manual-form
    \* ---- blueprint-estimation.js
    uploadedFile,       \* the floor plan, or NoFile
    blueprintPreviewImg,\* #blueprint-preview-img src
    blueprintPreview,   \* #blueprint-preview and #config-section displayed
    blueprintUploadZone,\* the upload zone of #upload-section displayed
    \* ---- manual-estimation-new.js and manual-estimation.js: the tabbed view
    uploadMode,         \* 'single', 'multi', 'video' or 'floorplan'
    selectedImage,      \* the single image, or NoFile
    previewImg,         \* #preview-img src
    imagePreview,       \* #image-preview displayed
    uploadArea,         \* #upload-area displayed
    selectedWalls,      \* sequence of [file, name]
    wallPreviewsGrid,   \* tiles of #wall-previews-grid: [file, name, index]
    wallPreviewsContainer, \* #wall-previews-container displayed
    selectedVideo,      \* the video, or NoFile
    videoSource,        \* #video-source src
    videoPreviewContainer, \* #video-preview-container displayed
    videoUploadArea,    \* .video-upload-area displayed
    cvSubmitDisabled,   \* #cv-submit-btn disabled
    toggles,            \* clicks on a mode button so far
    \* ---- manual-input-modal.js
    modalActive,        \* #manualInputModal has the class 'active'
    ceilingHeight,      \* value of the input #ceilingHeight
    confidenceValue,    \* text of #confidenceValue
    onSubmitCallback,   \* a callback is registered
    callbackCalls,      \* what the listener that ran last passed to it
    \* ---- the video page
    uploadedVideo,      \* the video, or NoFile
    videoPreview,       \* #video-preview and #config-section displayed
    timers,             \* the setInterval timers that run: [id, progress]
    progressInterval,   \* window.progressInterval: a timer id, 0 when unset
    nextTimer,          \* the id the next setInterval returns
    progressFill,       \* width of #progress-fill, in percent
    \* ---- a JSON body handed to displayResults on its own
    body,
    \* ---- shared by the pages
    readers,            \* FileReader loads that have not completed (bag)
    inflight,           \* fetch calls that have not settled (bag)
    loadingOverlay,     \* #loading-overlay displayed
    resultsContainer,   \* what the result region shows
    toast,              \* the notification shown last
    notifications       \* types of the notifications that the submission
                        \* settled last has shown, in order

\* the variables of each page, and for each page those of the other pages
imageVars == <<currentMode, uploadedImages, singlePreviewImg, singlePreview,
               singleDropZone, wallGrid, multiPreviewGrid, multiDropZone>>
singleVars == <<singlePreviewImg, singlePreview, singleDropZone>>
multiVars == <<wallGrid, multiPreviewGrid, multiDropZone>>
manualVars == <<manualForm>>
blueprintVars == <<uploadedFile, blueprintPreviewImg, blueprintPreview,
                   blueprintUploadZone>>
cvSingleVars == <<selectedImage, previewImg, imagePreview, uploadArea>>
cvWallVars == <<selectedWalls, wallPreviewsGrid, wallPreviewsContainer>>
cvVideoVars == <<selectedVideo, videoSource, videoPreviewContainer,
                 videoUploadArea>>
cvVars == <<uploadMode, cvSingleVars, cvWallVars, cvVideoVars,
            cvSubmitDisabled, toggles>>
modalVars == <<modalActive, ceilingHeight, confidenceValue, onSubmitCallback,
               callbackCalls>>
videoPageVars == <<uploadedVideo, videoPreview, timers, progressInterval,
                   nextTimer, progressFill>>
notImage == <<manualVars, blueprintVars, cvVars, modalVars, videoPageVars>>
notManual == <<imageVars, blueprintVars, cvVars, modalVars, videoPageVars>>
notBlueprint == <<imageVars, manualVars, cvVars, modalVars, videoPageVars>>
notCV == <<imageVars, manualVars, blueprintVars, modalVars, videoPageVars>>
notModal == <<imageVars, manualVars, blueprintVars, cvVars, videoPageVars>>
notVideoPage == <<imageVars, manualVars, blueprintVars, cvVars, modalVars>>

(***************************************************************************)
(* Bounds of the model                                                     *)
(***************************************************************************)
MaxReaders == 2     \* preview loads pending at once
MaxStale == 0       \* loads of an earlier render of the multi-image grid
                    \* still pending when the selection changes again
MaxInFlight == 2    \* requests outstanding at once
MaxBatch == 2       \* files in one multi-file pick or drop
MaxToggles == 1     \* clicks on a mode button of the tabbed view
MaxCVInFlight == 1  \* requests of the tabbed view outstanding at once
MaxTimers == 2      \* setInterval calls of the video page

(***************************************************************************)
(* Files                                                                   *)
(***************************************************************************)
NoFile == "none"
Files == {"A", "B", "T"}
BlueprintFiles == {"A", "T", "P", "L", "G", "E"}

FileType(f) ==
    CASE f = "A" -> "image/png"
      [] f = "B" -> "image/jpeg"
      [] f = "T" -> "text/plain"
      [] f = "P" -> "application/pdf"
      [] f = "L" -> "image/png"
      [] f = "G" -> "image/gif"
      [] f = "E" -> "image/jpeg"
      [] f \in {"V", "W", "H"} -> "video/mp4"

\* file.size, in bytes
FileSize(f) ==
    CASE f = "L" -> 10485761
      [] f = "E" -> 10485760
      [] f = "H" -> 52428801
      [] OTHER -> 204800

VideoFiles == {"V", "W", "H", "T"}
IsVideo(f) == FileType(f) = "video/mp4"
\* videoPreview.duration of a video file, in seconds
Duration(f) == IF f = "W" THEN 31 ELSE 20

\* file.type.startsWith('image/')
ImageTypes == {"image/png", "image/jpeg", "image/jpg", "image/gif"}
IsImage(f) == FileType(f) \in ImageTypes

\* what one multi-file pick or drop can hold
MultiFiles == {"A", "T"}
Batches == UNION {[1..k -> MultiFiles] : k \in 0..MaxBatch}

RECURSIVE FilterImages(_)
FilterImages(files) ==
    IF files = <<>> THEN <<>>
    ELSE IF IsImage(Head(files))
         THEN <<Head(files)>> \o FilterImages(Tail(files))
         ELSE FilterImages(Tail(files))

\* Array.prototype.splice(index, 1)
Splice(s, index) ==
    IF index + 1 \in 1..Len(s)
    THEN SubSeq(s, 1, index) \o SubSeq(s, index + 2, Len(s))
    ELSE s

(***************************************************************************)
(* JSON values and the JavaScript operators the result code applies        *)
(***************************************************************************)
Undef == [t |-> "undef"]
Null == [t |-> "null"]
NaN == [t |-> "nan"]
Infinity == [t |-> "inf"]
Num(k) == [t |-> "num", n |-> k, d |-> 1]
Str(s) == [t |-> "str", v |-> s]
Obj(r) == [t |-> "obj", f |-> r]
Arr(s) == [t |-> "arr", e |-> s]
EmptyObj == [t |-> "obj", f |-> <<>>]

Abs(k) == IF k < 0 THEN -k ELSE k

RECURSIVE GCD(_, _)
GCD(a, b) == IF b = 0 THEN a ELSE GCD(b, a % b)

\* the rational p/q in lowest terms, q # 0
Frac(p, q) ==
    LET g == GCD(Abs(p), Abs(q))
        s == IF q < 0 THEN -1 ELSE 1
    IN  [t |-> "num", n |-> (s * p) \div g, d |-> (s * q) \div g]

Nullish(v) == v.t \in {"undef", "null"}

Truthy(v) ==
    CASE v.t \in {"undef", "null", "nan"} -> FALSE
      [] v.t = "num" -> v.n # 0
      [] v.t = "str" -> v.v # ""
      [] OTHER -> TRUE

\* a || b   and   a && b
Or(a, b) == IF Truthy(a) THEN a ELSE b
And(a, b) == IF Truthy(a) THEN b ELSE a

\* v.k for a v that is neither null nor undefined
Prop(v, k) ==
    CASE v.t = "obj" -> IF k \in DOMAIN v.f THEN v.f[k] ELSE Undef
      [] v.t = "arr" -> IF k = "length" THEN Num(Len(v.e)) ELSE Undef
      [] v.t = "str" -> IF k = "length" THEN Num(Len(v.v)) ELSE Undef
      [] OTHER -> Undef

\* v?.k
OptProp(v, k) == IF Nullish(v) THEN Undef ELSE Prop(v, k)

\* v[0] for a v that is neither null nor undefined
Index0(v) ==
    CASE v.t = "arr" -> IF Len(v.e) > 0 THEN v.e[1] ELSE Undef
      [] v.t = "str" -> IF Len(v.v) > 0 THEN Str(SubSeq(v.v, 1, 1)) ELSE Undef
      [] v.t = "obj" -> Prop(v, "0")
      [] OTHER -> Undef

\* Number("...") for the strings of the model
StringToNumber(s) ==
    CASE s = "" -> Num(0)
      [] s = "5" -> Num(5)
      [] s = "12" -> Num(12)
      [] s = "400" -> Num(400)
      [] OTHER -> NaN

\* ToNumber, as applied by > and /
ToNumber(v) ==
    CASE v.t \in {"num", "nan", "inf"} -> v
      [] v.t = "null" -> Num(0)
      [] v.t = "str" -> StringToNumber(v.v)
      [] v.t = "arr" ->
            IF Len(v.e) = 0 THEN Num(0)
            ELSE IF Len(v.e) > 1 THEN NaN
            ELSE CASE Nullish(v.e[1]) -> Num(0)
                   [] v.e[1].t \in {"num", "nan", "inf"} -> v.e[1]
                   [] v.e[1].t = "str" -> StringToNumber(v.e[1].v)
                   [] OTHER -> NaN
      [] OTHER -> NaN

\* a > 0
GtZero(v) ==
    LET x == ToNumber(v)
    IN  CASE x.t = "num" -> x.n > 0
          [] x.t = "inf" -> TRUE
          [] OTHER -> FALSE

\* v === 0
IsZero(v) == v.t = "num" /\ v.n = 0

\* a / b
Div(a, b) ==
    LET x == ToNumber(a)
        y == ToNumber(b)
    IN  CASE x.t = "nan" \/ y.t = "nan" -> NaN
          [] x.t = "inf" /\ y.t = "inf" -> NaN
          [] x.t = "inf" -> Infinity
          [] y.t = "inf" -> Num(0)
          [] y.n = 0 -> IF x.n = 0 THEN NaN ELSE Infinity
          [] OTHER -> Frac(x.n * y.d, x.d * y.n)

\* a * k for an integer k
Times(a, k) ==
    LET x == ToNumber(a)
    IN  IF x.t = "num" THEN Frac(x.n * k, x.d) ELSE x

Pow10(k) == CASE k = 0 -> 1 [] k = 1 -> 10 [] k = 2 -> 100

\* Number.prototype.toFixed(digits): the value rounded to that many decimals,
\* kept as the integer value * 10^digits (halves round away from zero)
ToFixed(x, digits) ==
    IF x.t # "num" THEN [text |-> "NaN"]
    ELSE LET p == Abs(x.n) * Pow10(digits)
             q == (2 * p + x.d) \div (2 * x.d)
         IN  [text |-> "fixed", digits |-> digits,
              scaled |-> IF x.n < 0 THEN -q ELSE q]

\* only a number has toFixed; on anything else the call raises a TypeError
HasToFixed(v) == v.t \in {"num", "nan", "inf"}

(***************************************************************************)
(* image-estimation.js: displayResults                                     *)
(***************************************************************************)
Thrown == [thrown |-> TRUE]
Auto == [text |-> "Auto"]
NoResult == [thrown |-> FALSE, shown |-> FALSE]

estimatedHeight == 10

\* const data = response.data || response
Image_data(response) == Or(Prop(response, "data"), response)

\* data.rooms && data.rooms.length > 0
Image_hasRooms(data) ==
    Truthy(Prop(data, "rooms")) /\ GtZero(Prop(Prop(data, "rooms"), "length"))

\* a variant that prefers the body's own dimensions to the first room's
Image_dimensions_topLevelFirst(data) ==
    LET estimation == Prop(Index0(Prop(data, "rooms")), "estimation")
    IN  Or(Prop(data, "dimensions"),
           IF Image_hasRooms(data)
           THEN Or(OptProp(estimation, "dimensions"), Or(estimation, EmptyObj))
           ELSE EmptyObj)

\* the dimensions object: the first room's when there are rooms, else the
\* body's own
Image_dimensions(data) ==
    LET estimation == Prop(Index0(Prop(data, "rooms")), "estimation")
    IN  IF Image_hasRooms(data)
        THEN Or(OptProp(estimation, "dimensions"), Or(estimation, EmptyObj))
        ELSE Or(Prop(data, "dimensions"), EmptyObj)

\* data.total_paintable_area || data.area_calculation?.paintable_area
Image_paintableArea(data) ==
    Or(Prop(data, "total_paintable_area"),
       OptProp(Prop(data, "area_calculation"), "paintable_area"))

\* data.total_paint_required || data.product_breakdown?.paint?.quantity || 0
Image_paintRequired(data) ==
    Or(Or(Prop(data, "total_paint_required"),
          OptProp(OptProp(Prop(data, "product_breakdown"), "paint"),
                  "quantity")),
       Num(0))

\* data.total_cost || data.cost_breakdown?.total_cost || 0
Image_totalCost(data) ==
    Or(Or(Prop(data, "total_cost"),
          OptProp(Prop(data, "cost_breakdown"), "total_cost")),
       Num(0))

\* (data.rooms && data.rooms.length) || 1
Image_roomCount(data) ==
    Or(And(Prop(data, "rooms"), Prop(Prop(data, "rooms"), "length")), Num(1))

\* a variant that does not divide the area among the rooms
Image_estimatedSide_wholeArea(paintableArea, roomCount) ==
    Div(Div(Times(paintableArea, 2), Num(estimatedHeight)), Num(2))

\* the side of the square room estimated from the paintable area
Image_estimatedSide(paintableArea, roomCount) ==
    LET wallArea == Div(paintableArea, roomCount)
        perimeter == Div(Times(wallArea, 2), Num(estimatedHeight))
    IN  Div(perimeter, Num(2))

\* The record of what the result region renders, or Thrown when evaluating
\* the function raises a TypeError before the region is assigned.
Image_displayResults(response) ==
    IF Nullish(response) THEN Thrown
    ELSE
    LET data == Image_data(response)
    IN
    IF Image_hasRooms(data) /\ Nullish(Index0(Prop(data, "rooms")))
    THEN Thrown
    ELSE
    LET dimensions == Image_dimensions(data)
        length0 == Or(Prop(dimensions, "length"), Num(0))
        width0 == Or(Prop(dimensions, "width"), Num(0))
        height0 == Or(Prop(dimensions, "height"), Num(0))
        paintableArea == Image_paintableArea(data)
        fromArea == IsZero(length0) /\ IsZero(width0) /\ Truthy(paintableArea)
        estimatedSide ==
            Image_estimatedSide(paintableArea, Image_roomCount(data))
        length == IF fromArea THEN estimatedSide ELSE length0
        width == IF fromArea THEN estimatedSide ELSE width0
        height == IF fromArea THEN Num(estimatedHeight) ELSE height0
        areaShown == Or(paintableArea, Num(0))
        paintShown == Image_paintRequired(data)
        costShown == Image_totalCost(data)
        Dim(v) == IF GtZero(v) THEN ToFixed(v, 1) ELSE Auto
    IN
    IF \/ ~HasToFixed(areaShown)
       \/ ~HasToFixed(paintShown)
       \/ GtZero(length) /\ ~HasToFixed(length)
       \/ GtZero(width) /\ ~HasToFixed(width)
       \/ GtZero(height) /\ ~HasToFixed(height)
       \/ ~HasToFixed(costShown)
    THEN Thrown
    ELSE [thrown |-> FALSE, shown |-> TRUE,
          paintableArea |-> ToFixed(areaShown, 1),
          paintRequired |-> ToFixed(paintShown, 2),
          length |-> Dim(length),
          width |-> Dim(width),
          height |-> Dim(height),
          totalCost |-> ToFixed(costShown, 0)]

(***************************************************************************)
(* Requests, responses and notifications                                   *)
(***************************************************************************)
NoPayload == [kind |-> "none"]
Request(endpoint, files, room_data, payload) ==
    [endpoint |-> endpoint, files |-> files, room_data |-> room_data,
     payload |-> payload]

NoToast == [type |-> "none", title |-> ""]
\* an input without text
EmptyInput == [text |-> ""]
Toast(type, title) == [type |-> type, title |-> title]

\* bodies the backend answers with in the page flows
SingleRoomBody ==
    Obj([data |-> Obj([
        area_calculation |-> Obj([paintable_area |-> Num(400)]),
        product_breakdown |-> Obj([paint |-> Obj([quantity |-> Num(12)])]),
        cost_breakdown |-> Obj([total_cost |-> Num(5000)])])])
MultiRoomBody ==
    Obj([data |-> Obj([
        rooms |-> Arr(<<Obj([estimation |->
                    Obj([dimensions |-> Obj([length |-> Num(10),
                                             width |-> Num(12)])])])>>),
        total_paintable_area |-> Num(400),
        total_paint_required |-> Num(12),
        total_summary |-> Obj([total_rooms |-> Num(1)]),
        total_cost |-> Num(5000)])])
ImageBodies == {SingleRoomBody, MultiRoomBody, Null}

\* how a fetch settles: a 2xx answer with a JSON body, a non-2xx answer,
\* a body that is not JSON, or no answer at all
ErrorBodies ==
    {Obj([message |-> Str("bad room")]), Obj([detail |-> Str("not found")]),
     EmptyObj}
Responses(bodies) ==
    [outcome : {"ok"}, body : bodies]
        \cup [outcome : {"httpError"}, body : ErrorBodies]
        \cup [outcome : {"badJson", "networkError"}, body : {Undef}]

Outstanding == BagCardinality(inflight)
Pending == BagCardinality(readers)
Reader(kind, file, index) == [kind |-> kind, file |-> file, index |-> index]

(***************************************************************************)
(* image-estimation.js                                                     *)
(***************************************************************************)

\* the single container is displayed in single mode only, the multi
\* container in multi mode only (showSingleMode, showMultiMode)
SingleShown == view = "image" /\ currentMode = "single"
MultiShown == view = "image" /\ currentMode = "multi"

displaySingleImage(file) ==
    IF ~IsImage(file)
    THEN /\ toast' = Toast("error", "Invalid File")
         /\ UNCHANGED readers
    ELSE /\ Pending < MaxReaders
         /\ readers' = readers (+) SetToBag({Reader("single", file, 0)})
         /\ UNCHANGED toast

handleSingleImageSelect ==
    /\ SingleShown /\ singleDropZone
    /\ \E file \in Files : displaySingleImage(file)
    /\ UNCHANGED <<view, body, notifications, notImage, imageVars, inflight, loadingOverlay, resultsContainer>>

handleSingleImageDrop ==
    /\ SingleShown /\ singleDropZone
    /\ \E file \in Files : displaySingleImage(file)
    /\ UNCHANGED <<view, body, notifications, notImage, imageVars, inflight, loadingOverlay, resultsContainer>>

\* reader.onload of displaySingleImage
displaySingleImage_onload ==
    /\ view = "image"
    /\ \E r \in BagToSet(readers) :
        /\ r.kind = "single"
        /\ readers' = readers (-) SetToBag({r})
        /\ singlePreviewImg' = r.file
        /\ singlePreview' = TRUE
        /\ singleDropZone' = FALSE
        /\ uploadedImages' = <<r.file>>
    /\ UNCHANGED <<view, body, notifications, notImage, currentMode, multiVars, inflight, loadingOverlay,
                   resultsContainer, toast>>

\* the remove button of the single preview
removeSingleImage ==
    /\ SingleShown /\ singlePreview
    /\ singlePreview' = FALSE
    /\ singleDropZone' = TRUE
    /\ uploadedImages' = <<>>
    /\ UNCHANGED <<view, body, notifications, notImage, currentMode, singlePreviewImg, multiVars, readers,
                   inflight, loadingOverlay, resultsContainer, toast>>

\* what displayMultiImages leaves for the images imgs: an empty grid, one
\* load per image carrying its index, the preview section shown
displayMultiImages(imgs) ==
    [wallGrid |-> <<>>,
     readers |-> readers (+) SetToBag({Reader("multi", imgs[i], i - 1)
                                         : i \in 1..Len(imgs)}),
     multiPreviewGrid |-> TRUE,
     multiDropZone |-> Len(imgs) < 4]

addMultipleImages(files) ==
    LET imageFiles == FilterImages(files)
        imgs == uploadedImages \o imageFiles
        d == displayMultiImages(imgs)
    IN  IF Len(imageFiles) = 0
        THEN /\ toast' = Toast("error", "Invalid Files")
             /\ UNCHANGED <<uploadedImages, multiVars, readers>>
        ELSE IF Len(uploadedImages) + Len(imageFiles) > 4
        THEN /\ toast' = Toast("warning", "Too Many Images")
             /\ UNCHANGED <<uploadedImages, multiVars, readers>>
        ELSE /\ Pending <= MaxStale
             /\ uploadedImages' = imgs
             /\ wallGrid' = d.wallGrid
             /\ readers' = d.readers
             /\ multiPreviewGrid' = d.multiPreviewGrid
             /\ multiDropZone' = d.multiDropZone
             /\ UNCHANGED toast

handleMultiImageSelect ==
    /\ MultiShown /\ multiDropZone
    /\ \E files \in Batches : addMultipleImages(files)
    /\ UNCHANGED <<view, body, notifications, notImage, currentMode, singleVars, inflight, loadingOverlay,
                   resultsContainer>>

handleMultiImageDrop ==
    /\ MultiShown /\ multiDropZone
    /\ \E files \in Batches : Len(files) > 0 /\ addMultipleImages(files)
    /\ UNCHANGED <<view, body, notifications, notImage, currentMode, singleVars, inflight, loadingOverlay,
                   resultsContainer>>

\* reader.onload of displayMultiImages: the tile is appended to the grid
displayMultiImages_onload ==
    /\ view = "image"
    /\ \E r \in BagToSet(readers) :
        /\ r.kind = "multi"
        /\ readers' = readers (-) SetToBag({r})
        /\ wallGrid' = Append(wallGrid, [file |-> r.file, index |-> r.index])
    /\ UNCHANGED <<view, body, notifications, notImage, currentMode, uploadedImages, singleVars,
                   multiPreviewGrid, multiDropZone, inflight, loadingOverlay,
                   resultsContainer, toast>>

\* the Remove button of a tile, which carries the tile's index
removeMultiImage ==
    /\ MultiShown /\ multiPreviewGrid
    /\ \E k \in 1..Len(wallGrid) :
        LET imgs == Splice(uploadedImages, wallGrid[k].index)
            d == displayMultiImages(imgs)
        IN  /\ Pending <= MaxStale
            /\ uploadedImages' = imgs
            /\ wallGrid' = d.wallGrid
            /\ readers' = d.readers
            /\ multiPreviewGrid' = IF Len(imgs) = 0 THEN FALSE
                                   ELSE d.multiPreviewGrid
            /\ multiDropZone' = IF Len(imgs) = 0 THEN TRUE
                                ELSE d.multiDropZone
    /\ UNCHANGED <<view, body, notifications, notImage, currentMode, singleVars, inflight, loadingOverlay,
                   resultsContainer, toast>>

\* handleSingleSubmit without the return that follows the warning
handleSingleSubmit_noReturn ==
    /\ SingleShown
    /\ Outstanding < MaxInFlight
    /\ toast' = (IF Len(uploadedImages) = 0 THEN Toast("warning", "No Image")
                 ELSE toast)
    /\ inflight' = inflight (+) SetToBag({
            Request("/estimate/cv/single-room", uploadedImages, <<>>,
                    NoPayload)})
    /\ loadingOverlay' = TRUE
    /\ UNCHANGED <<view, body, notifications, notImage, imageVars, readers, resultsContainer>>

handleSingleSubmit ==
    /\ SingleShown
    /\ IF Len(uploadedImages) = 0
       THEN /\ toast' = Toast("warning", "No Image")
            /\ UNCHANGED <<inflight, loadingOverlay>>
       ELSE /\ Outstanding < MaxInFlight
            /\ inflight' = inflight (+) SetToBag({
                    Request("/estimate/cv/single-room",
                            <<uploadedImages[1]>>, <<>>, NoPayload)})
            /\ loadingOverlay' = TRUE
            /\ UNCHANGED toast
    /\ UNCHANGED <<view, body, notifications, notImage, imageVars, readers, resultsContainer>>

RECURSIVE WallNames(_)
\* `Wall ${index + 1}` for each of n images
WallNames(n) == IF n = 0 THEN <<>> ELSE Append(WallNames(n - 1), n)

handleMultiSubmit ==
    /\ MultiShown
    /\ IF Len(uploadedImages) < 2
       THEN /\ toast' = Toast("warning", "Not Enough Images")
            /\ UNCHANGED <<inflight, loadingOverlay>>
       ELSE /\ Outstanding < MaxInFlight
            /\ inflight' = inflight (+) SetToBag({
                    Request("/estimate/cv/multi-room", uploadedImages,
                            WallNames(Len(uploadedImages)), NoPayload)})
            /\ loadingOverlay' = TRUE
            /\ UNCHANGED toast
    /\ UNCHANGED <<view, body, notifications, notImage, imageVars, readers, resultsContainer>>

\* the settle step with the answer of a failed call rendered as well
Image_settlePartial(req, res) ==
    LET r == Image_displayResults(res.body)
    IN  /\ inflight' = inflight (-) SetToBag({req})
        /\ IF res.outcome = "ok" /\ ~r.thrown
           THEN /\ resultsContainer' = r
                /\ toast' = Toast("success", "Analysis Complete")
           ELSE /\ toast' = Toast("error", "Analysis Failed")
                /\ resultsContainer' = (IF r.thrown THEN resultsContainer
                                        ELSE r)
        /\ notifications' = <<toast'.type>>
        /\ loadingOverlay' = FALSE

\* the rest of handleSingleSubmit / handleMultiSubmit once fetch settles:
\* try { ... displayResults; success toast } catch { error toast }
\* finally { showLoading(false) }
Image_settle(req, res) ==
    LET r == Image_displayResults(res.body)
    IN  /\ inflight' = inflight (-) SetToBag({req})
        /\ IF res.outcome = "ok" /\ ~r.thrown
           THEN /\ resultsContainer' = r
                /\ toast' = Toast("success", "Analysis Complete")
           ELSE /\ toast' = Toast("error", "Analysis Failed")
                /\ UNCHANGED resultsContainer
        /\ notifications' = <<toast'.type>>
        /\ loadingOverlay' = FALSE

handleSingleSubmit_settled ==
    /\ view = "image"
    /\ \E req \in BagToSet(inflight), res \in Responses(ImageBodies) :
        /\ req.endpoint = "/estimate/cv/single-room"
        /\ Image_settle(req, res)
    /\ UNCHANGED <<view, body, notImage, imageVars, readers>>

handleMultiSubmit_settled ==
    /\ view = "image"
    /\ \E req \in BagToSet(inflight), res \in Responses(ImageBodies) :
        /\ req.endpoint = "/estimate/cv/multi-room"
        /\ Image_settle(req, res)
    /\ UNCHANGED <<view, body, notImage, imageVars, readers>>

ImageNext ==
    \/ handleSingleImageSelect
    \/ handleSingleImageDrop
    \/ displaySingleImage_onload
    \/ removeSingleImage
    \/ handleMultiImageSelect
    \/ handleMultiImageDrop
    \/ displayMultiImages_onload
    \/ removeMultiImage
    \/ handleSingleSubmit
    \/ handleSingleSubmit_settled
    \/ handleMultiSubmit
    \/ handleMultiSubmit_settled

(***************************************************************************)
(* part_001 (window.App): showLoading, hideLoading, showError, showSuccess *)
(* state.loading is written together with the overlay and is not kept      *)
(* apart from it.                                                          *)
(***************************************************************************)
\* showError(message): the toast, then hideLoading()
App_showError(message) ==
    /\ toast' = Toast("error", message)
    /\ loadingOverlay' = FALSE

\* the message of the Error that apiCall and the CV handlers raise on a
\* non-2xx answer; a null body makes the property read itself raise
HttpErrorMessage(data) ==
    IF Nullish(data) THEN "TypeError"
    ELSE LET m == Or(Prop(data, "message"), Prop(data, "detail"))
         IN  IF Truthy(m) /\ m.t = "str" THEN m.v ELSE "Request failed"

\* the message of what a settled fetch raises, "" when it raises nothing
FetchErrorMessage(res) ==
    CASE res.outcome = "networkError" -> "Failed to fetch"
      [] res.outcome = "badJson" -> "Unexpected token"
      [] res.outcome = "httpError" -> HttpErrorMessage(res.body)
      [] OTHER -> ""

(***************************************************************************)
(* manual-estimation.js: the manual form                                   *)
(***************************************************************************)
DimTexts == {"", "-1", "0", "20", "21", "100", "101"}
CountTexts == {"", "-1", "1.5"}
ManualForms ==
    [length : DimTexts, width : DimTexts, height : DimTexts,
     num_doors : CountTexts, num_windows : CountTexts]
NoForm ==
    [length |-> "", width |-> "", height |-> "", num_doors |-> "",
     num_windows |-> ""]

parseFloat(text) ==
    CASE text = "-1" -> Num(-1)
      [] text = "0" -> Num(0)
      [] text = "20" -> Num(20)
      [] text = "21" -> Num(21)
      [] text = "100" -> Num(100)
      [] text = "101" -> Num(101)
      [] text = "1.5" -> Frac(3, 2)
      [] OTHER -> NaN

parseInt(text) ==
    CASE text = "-1" -> Num(-1)
      [] text = "0" -> Num(0)
      [] text = "20" -> Num(20)
      [] text = "21" -> Num(21)
      [] text = "100" -> Num(100)
      [] text = "101" -> Num(101)
      [] text = "1.5" -> Num(1)
      [] OTHER -> NaN

\* x <= k and x > k on numbers; both are false when x is NaN
Le(x, k) == x.t = "num" /\ x.n <= k * x.d
Gt(x, k) == x.t = "num" /\ x.n > k * x.d

getManualFormData ==
    [room |-> [length |-> parseFloat(manualForm.length),
               width |-> parseFloat(manualForm.width),
               height |-> parseFloat(manualForm.height),
               num_doors |-> Or(parseInt(manualForm.num_doors), Num(0)),
               num_windows |-> Or(parseInt(manualForm.num_windows), Num(0))]]

maxRoomLength == 100
maxRoomHeight == 20

\* x >= k on numbers
Ge(x, k) == x.t = "num" /\ x.n >= k * x.d

\* validateManualForm with the bounds themselves refused
validateManualForm_exclusive(data) ==
    IF Le(data.room.length, 0) \/ Le(data.room.width, 0)
            \/ Le(data.room.height, 0)
    THEN [ok |-> FALSE, message |-> "Room dimensions must be greater than 0"]
    ELSE IF Ge(data.room.length, maxRoomLength)
                \/ Ge(data.room.width, maxRoomLength)
                \/ Ge(data.room.height, maxRoomHeight)
    THEN [ok |-> FALSE, message |-> "Room dimensions seem too large"]
    ELSE [ok |-> TRUE, message |-> ""]

\* the outcome of validateManualForm and the message it shows
validateManualForm(data) ==
    IF Le(data.room.length, 0) \/ Le(data.room.width, 0)
            \/ Le(data.room.height, 0)
    THEN [ok |-> FALSE, message |-> "Room dimensions must be greater than 0"]
    ELSE IF Gt(data.room.length, maxRoomLength)
                \/ Gt(data.room.width, maxRoomLength)
                \/ Gt(data.room.height, maxRoomHeight)
    THEN [ok |-> FALSE, message |-> "Room dimensions seem too large"]
    ELSE [ok |-> TRUE, message |-> ""]

\* a full answer of /estimate/manual
ManualBody ==
    Obj([success |-> [t |-> "bool", v |-> TRUE],
         data |-> Obj([
            area_calculation |-> Obj([paintable_area |-> Num(400),
                                      total_wall_area |-> Num(440),
                                      door_area |-> Num(21),
                                      window_area |-> Num(19)]),
            product_breakdown |-> Obj([paint |-> Obj([
                                      product_name |-> Str("Emulsion"),
                                      quantity |-> Num(12),
                                      unit |-> Str("L"),
                                      total_cost |-> Num(5000)])]),
            cost_breakdown |-> Obj([total_cost |-> Num(5000)]),
            summary |-> Obj([estimated_cost_range |-> Str("4500-5500")]),
            num_coats |-> Num(2),
            paint_type |-> Str("interior")])])

ManualBodies == {ManualBody, EmptyObj, Null}

\* num.toLocaleString(...) raises on undefined and null only
HasToLocaleString(v) == ~Nullish(v)
\* formatNumber / formatCurrency of a value: two decimals for a number
Localized(v) == IF v.t = "num" THEN ToFixed(v, 2) ELSE [text |-> "other"]

\* a product card of displayManualResults raises when the product is there
\* and its quantity or cost is missing
ProductCardThrows(product) ==
    Truthy(product)
        /\ (\/ ~HasToLocaleString(Prop(product, "quantity"))
            \/ ~HasToLocaleString(Prop(product, "total_cost")))

\* displayManualResults(data): what #manual-results-content renders, or
\* Thrown when building the markup raises before it is assigned
displayManualResults(data) ==
    IF Nullish(data) THEN Thrown
    ELSE
    LET area == Prop(data, "area_calculation")
        products == Prop(data, "product_breakdown")
        paint == OptProp(products, "paint")
        cost == Prop(data, "cost_breakdown")
    IN
    IF \/ Nullish(area)
       \/ ~HasToLocaleString(Prop(area, "paintable_area"))
       \/ Nullish(products)
       \/ Nullish(paint)
       \/ ~HasToLocaleString(Prop(paint, "quantity"))
       \/ ~HasToLocaleString(Prop(area, "total_wall_area"))
       \/ ~HasToLocaleString(Prop(area, "door_area"))
       \/ ~HasToLocaleString(Prop(area, "window_area"))
       \/ ProductCardThrows(Prop(products, "primer"))
       \/ ProductCardThrows(Prop(products, "putty"))
       \/ Prop(data, "paint_type").t # "str"
       \/ ~HasToLocaleString(Prop(paint, "total_cost"))
       \/ Nullish(cost)
       \/ ~HasToLocaleString(Prop(cost, "total_cost"))
       \/ Nullish(Prop(data, "summary"))
    THEN Thrown
    ELSE [thrown |-> FALSE, shown |-> TRUE,
          paintableArea |-> Localized(Prop(area, "paintable_area")),
          paintRequired |-> Localized(Prop(paint, "quantity")),
          length |-> Auto, width |-> Auto, height |-> Auto,
          totalCost |-> Localized(Prop(cost, "total_cost"))]

handleManualEstimation ==
    /\ view = "manual"
    /\ LET formData == getManualFormData
           v == validateManualForm(formData)
       IN  IF ~v.ok
           THEN /\ App_showError(v.message)
                /\ UNCHANGED inflight
           ELSE /\ Outstanding < MaxInFlight
                /\ loadingOverlay' = TRUE
                /\ inflight' = inflight (+) SetToBag({
                        Request("/api/v1/estimate/manual", <<>>, <<>>,
                                formData)})
                /\ UNCHANGED toast
    /\ UNCHANGED <<view, body, notifications, notManual, manualForm, readers, resultsContainer>>

\* the rest of handleManualEstimation once apiCall settles
handleManualEstimation_settled ==
    /\ view = "manual"
    /\ \E req \in BagToSet(inflight), res \in Responses(ManualBodies) :
        /\ req.endpoint = "/api/v1/estimate/manual"
        /\ inflight' = inflight (-) SetToBag({req})
        /\ IF res.outcome # "ok"
           THEN /\ App_showError(FetchErrorMessage(res))
                /\ notifications' = <<"error">>
                /\ UNCHANGED resultsContainer
           ELSE IF Nullish(res.body)
           THEN /\ App_showError("TypeError")
                /\ notifications' = <<"error">>
                /\ UNCHANGED resultsContainer
           ELSE LET r == displayManualResults(Prop(res.body, "data"))
                IN  IF r.thrown
                    THEN \* hideLoading, showSuccess, then the catch block
                         /\ App_showError("TypeError")
                         /\ notifications' = <<"success", "error">>
                         /\ UNCHANGED resultsContainer
                    ELSE /\ loadingOverlay' = FALSE
                         /\ toast' = Toast("success", "Calculation complete")
                         /\ notifications' = <<"success">>
                         /\ resultsContainer' = r
    /\ UNCHANGED <<view, body, notManual, manualForm, readers>>

ManualNext ==
    \/ handleManualEstimation
    \/ handleManualEstimation_settled

(***************************************************************************)
(* manual-estimation-new.js: the manual form                               *)
(***************************************************************************)

\* item.quantity?.toFixed(2) raises on a quantity that is there and is no
\* number
ItemThrows(item) ==
    LET quantity == Prop(item, "quantity")
    IN  ~Nullish(quantity) /\ ~HasToFixed(quantity)

\* one of primer, paints, putty in generateProductBreakdown
ProductThrows(product) ==
    /\ Truthy(product)
    /\ IF product.t = "arr"
       THEN \E k \in 1..Len(product.e) :
                Nullish(product.e[k]) \/ ItemThrows(product.e[k])
       ELSE Truthy(Prop(product, "product_name")) /\ ItemThrows(product)

generateProductBreakdownThrows(productBreakdown) ==
    /\ Truthy(productBreakdown)
    /\ \/ ProductThrows(Prop(productBreakdown, "primer"))
       \/ ProductThrows(Prop(productBreakdown, "paints"))
       \/ ProductThrows(Prop(productBreakdown, "putty"))

\* x?.toFixed(digits) || 'N/A'
OptFixedOrNA(x, digits) ==
    IF Nullish(x) THEN [text |-> "N/A"] ELSE ToFixed(x, digits)

ManualNew_displayResults(data) ==
    LET summary == Prop(data, "summary")
        area == OptProp(summary, "paintable_area_sqft")
        liters == OptProp(summary, "paint_required_liters")
        total == Or(OptProp(Prop(data, "cost_breakdown"), "total_cost"), Num(0))
    IN
    IF \/ ~Nullish(area) /\ ~HasToFixed(area)
       \/ ~Nullish(liters) /\ ~HasToFixed(liters)
       \/ generateProductBreakdownThrows(Prop(data, "product_breakdown"))
       \/ ~HasToFixed(total)
    THEN Thrown
    ELSE [thrown |-> FALSE, shown |-> TRUE,
          paintableArea |-> OptFixedOrNA(area, 1),
          paintRequired |-> OptFixedOrNA(liters, 2),
          length |-> Auto, width |-> Auto, height |-> Auto,
          totalCost |-> ToFixed(total, 0)]

\* a full answer of /estimate/manual as the new form reads it
ManualNewBody ==
    Obj([data |-> Obj([
        summary |-> Obj([paintable_area_sqft |-> Num(400),
                         paint_required_liters |-> Num(12)]),
        product_breakdown |-> Obj([paints |-> Obj([
                                  product_name |-> Str("Emulsion"),
                                  quantity |-> Num(12)])]),
        cost_breakdown |-> Obj([total_cost |-> Num(5000)]),
        num_coats |-> Num(2)])])
ManualNewBodies == {ManualNewBody, EmptyObj, Null}

\* the payload of handleFormSubmit: nothing is validated
ManualNew_payload ==
    [room |-> [length |-> parseFloat(manualForm.length),
               width |-> parseFloat(manualForm.width),
               height |-> parseFloat(manualForm.height),
               num_doors |-> parseInt(manualForm.num_doors),
               num_windows |-> parseInt(manualForm.num_windows)]]

ManualNew_handleFormSubmit ==
    /\ view = "manualNew"
    /\ Outstanding < MaxInFlight
    /\ inflight' = inflight (+) SetToBag({
            Request("/estimate/manual", <<>>, <<>>, ManualNew_payload)})
    /\ loadingOverlay' = TRUE
    /\ UNCHANGED <<view, body, notifications, notManual, manualForm, readers, resultsContainer,
                   toast>>

\* the rest of handleFormSubmit once fetch settles
ManualNew_handleFormSubmit_settled ==
    /\ view = "manualNew"
    /\ \E req \in BagToSet(inflight), res \in Responses(ManualNewBodies) :
        /\ req.endpoint = "/estimate/manual"
        /\ inflight' = inflight (-) SetToBag({req})
        /\ LET data == Or(Prop(res.body, "data"), res.body)
               r == ManualNew_displayResults(data)
           IN  IF res.outcome = "ok" /\ ~Nullish(res.body) /\ ~r.thrown
               THEN /\ resultsContainer' = r
                    /\ toast' = Toast("success", "Calculation Complete")
               ELSE /\ toast' = Toast("error", "Calculation Failed")
                    /\ UNCHANGED resultsContainer
        /\ notifications' = <<toast'.type>>
        /\ loadingOverlay' = FALSE
    /\ UNCHANGED <<view, body, notManual, manualForm, readers>>

\* the "Calculate Again" button of the result: resetForm()
resetForm ==
    /\ view = "manualNew" /\ resultsContainer.thrown = FALSE
    /\ resultsContainer.shown
    /\ manualForm' = NoForm
    /\ resultsContainer' = [resultsContainer EXCEPT !.shown = FALSE]
    /\ UNCHANGED <<view, body, notifications, notManual, readers, inflight, loadingOverlay, toast>>

ManualNewNext ==
    \/ ManualNew_handleFormSubmit
    \/ ManualNew_handleFormSubmit_settled
    \/ resetForm

(***************************************************************************)
(* blueprint-estimation.js                                                 *)
(***************************************************************************)
validTypes == {"image/jpeg", "image/jpg", "image/png", "application/pdf"}
maxSize == 10485760
PdfPlaceholder == "placeholder"

displayBlueprint(file) ==
    IF FileType(file) \notin validTypes
    THEN /\ toast' = Toast("error", "Invalid File Type")
         /\ UNCHANGED <<blueprintVars, readers>>
    ELSE IF FileSize(file) > maxSize
    THEN /\ toast' = Toast("error", "File Too Large")
         /\ UNCHANGED <<blueprintVars, readers>>
    ELSE /\ uploadedFile' = file
         /\ IF IsImage(file)
            THEN /\ Pending < MaxReaders
                 /\ readers' = readers (+) SetToBag({Reader("blueprint", file, 0)})
                 /\ UNCHANGED <<blueprintPreviewImg, blueprintPreview,
                                blueprintUploadZone>>
            ELSE /\ blueprintPreviewImg' = PdfPlaceholder
                 /\ blueprintPreview' = TRUE
                 /\ blueprintUploadZone' = FALSE
                 /\ UNCHANGED readers
         /\ toast' = Toast("success", "Floor Plan Uploaded")

Blueprint_handleFileSelect ==
    /\ view = "blueprint" /\ blueprintUploadZone
    /\ \E file \in BlueprintFiles : displayBlueprint(file)
    /\ UNCHANGED <<view, body, notifications, notBlueprint, inflight, loadingOverlay,
                   resultsContainer>>

handleFileDrop ==
    /\ view = "blueprint" /\ blueprintUploadZone
    /\ \E file \in BlueprintFiles : displayBlueprint(file)
    /\ UNCHANGED <<view, body, notifications, notBlueprint, inflight, loadingOverlay,
                   resultsContainer>>

\* reader.onload of displayBlueprint
displayBlueprint_onload ==
    /\ view = "blueprint"
    /\ \E r \in BagToSet(readers) :
        /\ r.kind = "blueprint"
        /\ readers' = readers (-) SetToBag({r})
        /\ blueprintPreviewImg' = r.file
        /\ blueprintPreview' = TRUE
        /\ blueprintUploadZone' = FALSE
    /\ UNCHANGED <<view, body, notifications, notBlueprint, uploadedFile, inflight, loadingOverlay,
                   resultsContainer, toast>>

\* the remove button of the blueprint preview
removeBlueprint ==
    /\ view = "blueprint" /\ blueprintPreview
    /\ uploadedFile' = NoFile
    /\ blueprintPreview' = FALSE
    /\ blueprintUploadZone' = TRUE
    /\ UNCHANGED <<view, body, notifications, notBlueprint, blueprintPreviewImg, readers, inflight,
                   loadingOverlay, resultsContainer, toast>>

\* a room row of the blueprint result raises on a null room and on a
\* positive floor area that is no number
RoomRowThrows(room) ==
    \/ Nullish(room)
    \/ LET floorArea == Or(OptProp(Prop(room, "areas"), "floor_area"), Num(0))
       IN  GtZero(floorArea) /\ ~HasToFixed(floorArea)

\* x > 0 ? x.toFixed(digits) : 'N/A'
FixedOrNA(x, digits) == IF GtZero(x) THEN ToFixed(x, digits) ELSE [text |-> "N/A"]

Blueprint_displayResults(data) ==
    LET rooms == Prop(data, "rooms")
        isMultiRoom == Truthy(rooms) /\ rooms.t = "arr"
        paintLiters == Or(Prop(data, "total_paint_required_liters"), Num(0))
        totalFloorArea == Or(Prop(data, "total_floor_area"), Num(0))
        totalPaintableArea == Or(Prop(data, "total_paintable_area"), Num(0))
        total_cost == Prop(data, "total_cost")
    IN
    IF \/ isMultiRoom /\ \E k \in 1..Len(rooms.e) : RoomRowThrows(rooms.e[k])
       \/ GtZero(totalFloorArea) /\ ~HasToFixed(totalFloorArea)
       \/ GtZero(totalPaintableArea) /\ ~HasToFixed(totalPaintableArea)
       \/ GtZero(paintLiters) /\ ~HasToFixed(paintLiters)
       \/ ~Nullish(total_cost) /\ ~HasToFixed(total_cost)
    THEN Thrown
    ELSE [thrown |-> FALSE, shown |-> TRUE,
          paintableArea |-> FixedOrNA(totalPaintableArea, 1),
          paintRequired |-> FixedOrNA(paintLiters, 2),
          length |-> Auto, width |-> Auto, height |-> Auto,
          totalCost |-> IF Nullish(total_cost) \/ ~Truthy(total_cost)
                        THEN ToFixed(Num(0), 0)
                        ELSE ToFixed(total_cost, 0)]

\* a full answer of /estimate/floorplan
FloorplanBody ==
    Obj([success |-> [t |-> "bool", v |-> TRUE],
         data |-> Obj([
            rooms |-> Arr(<<Obj([name |-> Str("Bedroom"),
                                areas |-> Obj([floor_area |-> Num(120)])])>>),
            total_rooms |-> Num(1),
            total_floor_area |-> Num(120),
            total_paintable_area |-> Num(400),
            total_paint_required_liters |-> Num(12),
            total_cost |-> Num(5000)]),
         message |-> Str("done")])
BlueprintBodies == {FloorplanBody, Null}

Blueprint_handleFormSubmit ==
    /\ view = "blueprint"
    /\ IF uploadedFile = NoFile
       THEN /\ toast' = Toast("warning", "No Floor Plan")
            /\ UNCHANGED <<inflight, loadingOverlay>>
       ELSE /\ Outstanding < MaxInFlight
            /\ inflight' = inflight (+) SetToBag({
                    Request("/estimate/floorplan", <<uploadedFile>>, <<>>,
                            NoPayload)})
            /\ loadingOverlay' = TRUE
            /\ UNCHANGED toast
    /\ UNCHANGED <<view, body, notifications, notBlueprint, blueprintVars, readers,
                   resultsContainer>>

\* the rest of handleFormSubmit once fetch settles
Blueprint_handleFormSubmit_settled ==
    /\ view = "blueprint"
    /\ \E req \in BagToSet(inflight), res \in Responses(BlueprintBodies) :
        /\ req.endpoint = "/estimate/floorplan"
        /\ inflight' = inflight (-) SetToBag({req})
        /\ LET data == Or(Prop(res.body, "data"), res.body)
               r == Blueprint_displayResults(data)
           IN  IF res.outcome = "ok" /\ ~Nullish(res.body) /\ ~r.thrown
               THEN /\ resultsContainer' = r
                    /\ toast' = Toast("success", "Analysis Complete")
               ELSE /\ toast' = Toast("error", "Analysis Failed")
                    /\ UNCHANGED resultsContainer
        /\ notifications' = <<toast'.type>>
        /\ loadingOverlay' = FALSE
    /\ UNCHANGED <<view, body, notBlueprint, blueprintVars, readers>>

BlueprintNext ==
    \/ Blueprint_handleFileSelect
    \/ handleFileDrop
    \/ displayBlueprint_onload
    \/ removeBlueprint
    \/ Blueprint_handleFormSubmit
    \/ Blueprint_handleFormSubmit_settled

(***************************************************************************)
(* manual-estimation-new.js: the tabbed view, single image                 *)
(***************************************************************************)
App_showSuccess(message) == toast' = Toast("success", message)

\* clearImage()
clearImage ==
    /\ selectedImage' = NoFile
    /\ imagePreview' = FALSE
    /\ uploadArea' = TRUE
    /\ UNCHANGED previewImg

CV_handleFileSelect(file) ==
    IF ~IsImage(file)
    THEN /\ App_showError("Please select a valid image file")
         /\ UNCHANGED <<cvSingleVars, readers>>
    ELSE /\ Pending < MaxReaders
         /\ selectedImage' = file
         /\ readers' = readers (+) SetToBag({Reader("cvSingle", file, 0)})
         /\ UNCHANGED <<previewImg, imagePreview, uploadArea, toast,
                        loadingOverlay>>

\* change of #room-image
roomImage_change ==
    /\ view = "cv" /\ uploadMode = "single" /\ uploadArea
    /\ \E file \in Files : CV_handleFileSelect(file)
    /\ UNCHANGED <<view, body, notifications, notCV, uploadMode, toggles, cvWallVars, cvVideoVars,
                   cvSubmitDisabled, inflight, resultsContainer>>

\* drop on #upload-area: images only
uploadArea_drop ==
    /\ view = "cv" /\ uploadMode = "single" /\ uploadArea
    /\ \E file \in Files : IsImage(file) /\ CV_handleFileSelect(file)
    /\ UNCHANGED <<view, body, notifications, notCV, uploadMode, toggles, cvWallVars, cvVideoVars,
                   cvSubmitDisabled, inflight, resultsContainer>>

\* reader.onload of handleFileSelect
CV_handleFileSelect_onload ==
    /\ view = "cv"
    /\ \E r \in BagToSet(readers) :
        /\ r.kind = "cvSingle"
        /\ readers' = readers (-) SetToBag({r})
        /\ previewImg' = r.file
        /\ imagePreview' = TRUE
        /\ uploadArea' = FALSE
        /\ cvSubmitDisabled' = FALSE
    /\ UNCHANGED <<view, body, notifications, notCV, uploadMode, toggles, selectedImage, cvWallVars,
                   cvVideoVars, inflight, loadingOverlay, resultsContainer,
                   toast>>

\* click on #remove-image
removeImage_click ==
    /\ view = "cv" /\ uploadMode = "single" /\ imagePreview
    /\ clearImage
    /\ cvSubmitDisabled' = TRUE
    /\ UNCHANGED <<view, body, notifications, notCV, uploadMode, toggles, cvWallVars, cvVideoVars, readers,
                   inflight, loadingOverlay, resultsContainer, toast>>

Modes == {"single", "multi", "video", "floorplan"}

handleModeToggle ==
    /\ view = "cv" /\ toggles < MaxToggles
    /\ toggles' = toggles + 1
    /\ \E mode \in Modes :
        /\ uploadMode' = mode
        /\ CASE mode = "single" ->
                  /\ selectedWalls' = <<>>
                  /\ selectedVideo' = NoFile
                  /\ cvSubmitDisabled' = (selectedImage = NoFile)
                  /\ UNCHANGED cvSingleVars
             [] mode = "multi" ->
                  /\ clearImage
                  /\ selectedVideo' = NoFile
                  /\ cvSubmitDisabled' = (Len(selectedWalls) < 2)
                  /\ UNCHANGED selectedWalls
             [] mode = "video" ->
                  /\ clearImage
                  /\ selectedWalls' = <<>>
                  /\ cvSubmitDisabled' = (selectedVideo = NoFile)
                  /\ UNCHANGED selectedVideo
             [] mode = "floorplan" ->
                  /\ clearImage
                  /\ selectedWalls' = <<>>
                  /\ selectedVideo' = NoFile
                  /\ cvSubmitDisabled' = TRUE
    /\ UNCHANGED <<view, body, notifications, notCV, wallPreviewsGrid, wallPreviewsContainer,
                   videoSource, videoPreviewContainer, videoUploadArea,
                   readers, inflight, loadingOverlay, resultsContainer, toast>>

(***************************************************************************)
(* manual-estimation-new.js: the tabbed view, wall images                  *)
(***************************************************************************)
\* `Wall ${k}`
WallName(k) == k

\* updateWallPreviewsGrid() for the walls it finds
updateWallPreviewsGrid(walls) ==
    IF Len(walls) > 0
    THEN /\ wallPreviewsContainer' = TRUE
         /\ wallPreviewsGrid' = [k \in 1..Len(walls) |->
                [file |-> walls[k].file, name |-> walls[k].name,
                 index |-> k - 1]]
         /\ cvSubmitDisabled' = (Len(walls) < 2)
    ELSE /\ wallPreviewsContainer' = FALSE
         /\ cvSubmitDisabled' = TRUE
         /\ UNCHANGED wallPreviewsGrid

maxWalls == 4

handleMultiWallSelect(files) ==
    IF Len(files) + Len(selectedWalls) > maxWalls
    THEN /\ App_showError("Maximum 4 walls allowed. Please select fewer images.")
         /\ UNCHANGED readers
    ELSE IF Len(files) < 1
    THEN /\ App_showError("Please select at least one image.")
         /\ UNCHANGED readers
    ELSE LET imgs == FilterImages(files)
         IN  /\ Pending + Len(imgs) <= MaxReaders
             /\ readers' = readers (+)
                    [r \in {Reader("wall", imgs[k], 0) : k \in 1..Len(imgs)} |->
                        Cardinality({k \in 1..Len(imgs) :
                                        Reader("wall", imgs[k], 0) = r})]
             /\ UNCHANGED <<toast, loadingOverlay>>

\* change of #multi-wall-images
multiWallImages_change ==
    /\ view = "cv" /\ uploadMode = "multi"
    /\ \E files \in Batches : handleMultiWallSelect(files)
    /\ UNCHANGED <<view, body, notifications, notCV, cvVars, inflight, resultsContainer>>

\* drop on #multi-upload-trigger: images only, and only when there are some
multiUploadTrigger_drop ==
    /\ view = "cv" /\ uploadMode = "multi"
    /\ \E dropped \in Batches :
        LET files == FilterImages(dropped)
        IN  Len(files) > 0 /\ handleMultiWallSelect(files)
    /\ UNCHANGED <<view, body, notifications, notCV, cvVars, inflight, resultsContainer>>

\* reader.onload of handleMultiWallSelect
handleMultiWallSelect_onload ==
    /\ view = "cv"
    /\ \E r \in BagToSet(readers) :
        /\ r.kind = "wall"
        /\ readers' = readers (-) SetToBag({r})
        /\ LET walls == Append(selectedWalls,
                    [file |-> r.file, name |-> WallName(Len(selectedWalls) + 1)])
           IN  /\ selectedWalls' = walls
               /\ updateWallPreviewsGrid(walls)
    /\ UNCHANGED <<view, body, notifications, notCV, uploadMode, toggles, cvSingleVars, cvVideoVars,
                   inflight, loadingOverlay, resultsContainer, toast>>

\* a variant that removes a wall without renumbering the ones that stay
removeWall_noRenumber ==
    /\ view = "cv" /\ uploadMode = "multi" /\ wallPreviewsContainer
    /\ \E k \in 1..Len(wallPreviewsGrid) :
        LET walls == Splice(selectedWalls, wallPreviewsGrid[k].index)
        IN  /\ selectedWalls' = walls
            /\ updateWallPreviewsGrid(walls)
    /\ UNCHANGED <<view, body, notifications, notCV, uploadMode, toggles, cvSingleVars, cvVideoVars, readers,
                   inflight, loadingOverlay, resultsContainer, toast>>

\* the remove button of a tile of the grid
removeWall ==
    /\ view = "cv" /\ uploadMode = "multi" /\ wallPreviewsContainer
    /\ \E k \in 1..Len(wallPreviewsGrid) :
        LET spliced == Splice(selectedWalls, wallPreviewsGrid[k].index)
            walls == [i \in 1..Len(spliced) |->
                        [file |-> spliced[i].file, name |-> WallName(i)]]
        IN  /\ selectedWalls' = walls
            /\ updateWallPreviewsGrid(walls)
    /\ UNCHANGED <<view, body, notifications, notCV, uploadMode, toggles, cvSingleVars, cvVideoVars, readers,
                   inflight, loadingOverlay, resultsContainer, toast>>

(***************************************************************************)
(* manual-estimation.js: the tabbed view, video                            *)
(***************************************************************************)
maxVideoSize == 52428800
maxDuration == 30

\* clearVideo(): the load() of the emptied source drops a metadata event
\* that is still to come
clearVideo ==
    /\ selectedVideo' = NoFile
    /\ videoSource' = NoFile
    /\ videoPreviewContainer' = FALSE
    /\ videoUploadArea' = TRUE
    /\ cvSubmitDisabled' = TRUE
    /\ readers' = [r \in {x \in BagToSet(readers) : x.kind # "metadata"} |->
                        readers[r]]

handleVideoSelect(file) ==
    IF ~IsVideo(file)
    THEN /\ App_showError("Please select a valid video file")
         /\ UNCHANGED <<cvVideoVars, cvSubmitDisabled, readers>>
    ELSE IF FileSize(file) > maxVideoSize
    THEN /\ App_showError("Video file is too large. Maximum size is 50 MB.")
         /\ UNCHANGED <<cvVideoVars, cvSubmitDisabled, readers>>
    ELSE /\ selectedVideo' = file
         /\ videoSource' = file
         /\ readers' = [r \in {x \in BagToSet(readers) : x.kind # "metadata"} |->
                            readers[r]] (+)
                       SetToBag({Reader("metadata", file, 0)})
         /\ videoPreviewContainer' = TRUE
         /\ videoUploadArea' = FALSE
         /\ cvSubmitDisabled' = FALSE
         /\ UNCHANGED <<toast, loadingOverlay>>

\* change of #room-video
roomVideo_change ==
    /\ view = "cv" /\ uploadMode = "video" /\ videoUploadArea
    /\ \E file \in VideoFiles : handleVideoSelect(file)
    /\ UNCHANGED <<view, body, notifications, notCV, uploadMode, toggles, cvSingleVars, cvWallVars, inflight,
                   resultsContainer>>

\* drop on #video-upload-trigger: videos only
videoUploadTrigger_drop ==
    /\ view = "cv" /\ uploadMode = "video" /\ videoUploadArea
    /\ \E file \in VideoFiles : IsVideo(file) /\ handleVideoSelect(file)
    /\ UNCHANGED <<view, body, notifications, notCV, uploadMode, toggles, cvSingleVars, cvWallVars, inflight,
                   resultsContainer>>

\* the loadedmetadata listener of handleVideoSelect
handleVideoSelect_loadedmetadata ==
    /\ view = "cv"
    /\ \E r \in BagToSet(readers) :
        /\ r.kind = "metadata"
        /\ IF Duration(r.file) > maxDuration
           THEN /\ App_showError("Video is too long. Maximum duration is 30 seconds.")
                /\ clearVideo
           ELSE /\ readers' = readers (-) SetToBag({r})
                /\ UNCHANGED <<cvVideoVars, cvSubmitDisabled, toast,
                               loadingOverlay>>
    /\ UNCHANGED <<view, body, notifications, notCV, uploadMode, toggles, cvSingleVars, cvWallVars, inflight,
                   resultsContainer>>

\* click on #remove-video
removeVideo_click ==
    /\ view = "cv" /\ uploadMode = "video" /\ videoPreviewContainer
    /\ clearVideo
    /\ UNCHANGED <<view, body, notifications, notCV, uploadMode, toggles, cvSingleVars, cvWallVars, inflight,
                   loadingOverlay, resultsContainer, toast>>

(***************************************************************************)
(* The tabbed view: what #cv-results-content renders                       *)
(***************************************************************************)

\* what the markup is built from, or Thrown when building it raises
\* before it is assigned
displayCVResults(data) ==
    IF Nullish(data) THEN Thrown
    ELSE
    LET area == Prop(data, "area_calculation")
        products == Prop(data, "product_breakdown")
        paint == OptProp(products, "paint")
        cost == Prop(data, "cost_breakdown")
    IN
    IF \/ Nullish(area)
       \/ ~HasToLocaleString(Prop(area, "paintable_area"))
       \/ Nullish(products)
       \/ Nullish(paint)
       \/ ~HasToLocaleString(Prop(paint, "quantity"))
       \/ ProductCardThrows(Prop(products, "primer"))
       \/ ProductCardThrows(Prop(products, "putty"))
       \/ Prop(data, "paint_type").t # "str"
       \/ ~HasToLocaleString(Prop(paint, "total_cost"))
       \/ Nullish(cost)
       \/ ~HasToLocaleString(Prop(cost, "total_cost"))
       \/ Nullish(Prop(data, "summary"))
    THEN Thrown
    ELSE [thrown |-> FALSE, shown |-> TRUE,
          paintableArea |-> Localized(Prop(area, "paintable_area")),
          paintRequired |-> Localized(Prop(paint, "quantity")),
          length |-> Auto, width |-> Auto, height |-> Auto,
          totalCost |-> Localized(Prop(cost, "total_cost"))]

displayVideoResults(data) ==
    IF Nullish(data) THEN Thrown
    ELSE
    LET videoAnalysis == Or(Prop(data, "video_analysis"), EmptyObj)
        area == Prop(data, "area_calculation")
        products == Prop(data, "product_breakdown")
        paint == OptProp(products, "paint")
        cost == Prop(data, "cost_breakdown")
    IN
    IF \/ Nullish(Prop(videoAnalysis, "metadata"))
       \/ Nullish(area)
       \/ ~HasToLocaleString(Prop(area, "paintable_area"))
       \/ Nullish(products)
       \/ Nullish(paint)
       \/ ~HasToLocaleString(Prop(paint, "quantity"))
       \/ ProductCardThrows(Prop(products, "primer"))
       \/ ProductCardThrows(Prop(products, "putty"))
       \/ Prop(data, "paint_type").t # "str"
       \/ ~HasToLocaleString(Prop(paint, "total_cost"))
       \/ Nullish(cost)
       \/ ~HasToLocaleString(Prop(cost, "total_cost"))
    THEN Thrown
    ELSE [thrown |-> FALSE, shown |-> TRUE,
          paintableArea |-> Localized(Prop(area, "paintable_area")),
          paintRequired |-> Localized(Prop(paint, "quantity")),
          length |-> Auto, width |-> Auto, height |-> Auto,
          totalCost |-> Localized(Prop(cost, "total_cost"))]

\* a + (b || 0) of numbers; the answers of the model carry numeric
\* dimensions or none
Plus(a, b) ==
    LET y == Or(b, Num(0))
    IN  IF a.t = "num" /\ y.t = "num"
        THEN Frac(a.n * y.d + y.n * a.d, a.d * y.d)
        ELSE NaN

RECURSIVE SumDim(_, _)
\* the forEach of displayMultiWallResults for one dimension
SumDim(rooms, dim) ==
    IF rooms = <<>> THEN Num(0)
    ELSE LET room == rooms[Len(rooms)]
             dims == Or(Prop(Prop(room, "estimation"), "dimensions"), EmptyObj)
         IN  Plus(SumDim(SubSeq(rooms, 1, Len(rooms) - 1), dim),
                  Prop(dims, dim))

displayMultiWallResults(data) ==
    IF Nullish(data) THEN Thrown
    ELSE
    LET r == Or(Prop(data, "rooms"), Arr(<<>>))
        rooms == IF r.t = "arr" THEN r.e ELSE <<>>
        count == Num(Len(rooms))
    IN
    IF \/ r.t # "arr"
       \/ \E k \in 1..Len(rooms) :
            Nullish(rooms[k]) \/ Nullish(Prop(rooms[k], "estimation"))
       \/ ~HasToLocaleString(Prop(data, "total_paintable_area"))
       \/ ~HasToLocaleString(Prop(data, "total_paint_required"))
       \/ Nullish(Prop(data, "total_summary"))
       \/ ~HasToLocaleString(Prop(data, "total_cost"))
    THEN Thrown
    ELSE [thrown |-> FALSE, shown |-> TRUE,
          paintableArea |-> Localized(Prop(data, "total_paintable_area")),
          paintRequired |-> Localized(Prop(data, "total_paint_required")),
          length |-> ToFixed(Div(SumDim(rooms, "length"), count), 1),
          width |-> ToFixed(Div(SumDim(rooms, "width"), count), 1),
          height |-> ToFixed(Div(SumDim(rooms, "height"), count), 1),
          totalCost |-> Localized(Prop(data, "total_cost"))]

(***************************************************************************)
(* The tabbed view: submission                                             *)
(***************************************************************************)
VideoBody ==
    Obj([data |-> Obj([
        video_analysis |-> Obj([frames_analyzed |-> Num(5),
                                metadata |-> Obj([duration |-> Num(20)])]),
        area_calculation |-> Obj([paintable_area |-> Num(400)]),
        product_breakdown |-> Obj([paint |-> Obj([
                                  quantity |-> Num(12),
                                  total_cost |-> Num(5000)])]),
        cost_breakdown |-> Obj([total_cost |-> Num(5000)]),
        paint_type |-> Str("interior")])])

CVBodies == {ManualBody, MultiRoomBody, VideoBody, Null}

handleSingleWallEstimation ==
    IF selectedImage = NoFile
    THEN /\ App_showError("Please select an image first")
         /\ UNCHANGED inflight
    ELSE /\ Outstanding < MaxCVInFlight
         /\ loadingOverlay' = TRUE
         /\ inflight' = inflight (+) SetToBag({
                Request("/api/v1/estimate/cv/single-room", <<selectedImage>>,
                        <<>>, NoPayload)})
         /\ UNCHANGED toast

handleMultiWallEstimation ==
    IF Len(selectedWalls) < 2
    THEN /\ App_showError("Please select at least 2 wall images for multi-wall mode")
         /\ UNCHANGED inflight
    ELSE /\ Outstanding < MaxCVInFlight
         /\ loadingOverlay' = TRUE
         /\ inflight' = inflight (+) SetToBag({
                Request("/api/v1/estimate/cv/multi-room",
                        [k \in 1..Len(selectedWalls) |-> selectedWalls[k].file],
                        [k \in 1..Len(selectedWalls) |-> selectedWalls[k].name],
                        NoPayload)})
         /\ UNCHANGED toast

handleVideoEstimation ==
    IF selectedVideo = NoFile
    THEN /\ App_showError("Please select a video first")
         /\ UNCHANGED inflight
    ELSE /\ Outstanding < MaxCVInFlight
         /\ loadingOverlay' = TRUE
         /\ inflight' = inflight (+) SetToBag({
                Request("/api/v1/estimate/cv/video", <<selectedVideo>>, <<>>,
                        NoPayload)})
         /\ UNCHANGED toast

\* submit of #cv-form: the form is displayed in every mode but floorplan,
\* and a disabled submit button submits nothing
handleCVEstimation ==
    /\ view = "cv" /\ uploadMode # "floorplan" /\ ~cvSubmitDisabled
    /\ CASE uploadMode = "single" -> handleSingleWallEstimation
         [] uploadMode = "multi" -> handleMultiWallEstimation
         [] uploadMode = "video" -> handleVideoEstimation
    /\ UNCHANGED <<view, body, notifications, notCV, cvVars, readers, resultsContainer>>

\* the rest of a tabbed-view handler once fetch settles: response.json(),
\* the throw on a non-2xx answer, hideLoading, showSuccess, the display,
\* and the catch block, which shows the error and hides the overlay
CV_settle(req, res, r, success) ==
    /\ inflight' = inflight (-) SetToBag({req})
    /\ IF res.outcome # "ok"
       THEN /\ App_showError(FetchErrorMessage(res))
            /\ notifications' = <<"error">>
            /\ UNCHANGED resultsContainer
       ELSE IF Nullish(res.body) \/ ~success
       THEN /\ App_showError("TypeError")
            /\ notifications' = <<"error">>
            /\ UNCHANGED resultsContainer
       ELSE IF r.thrown
       THEN \* showSuccess has run when the display raises
            /\ App_showError("TypeError")
            /\ notifications' = <<"success", "error">>
            /\ UNCHANGED resultsContainer
       ELSE /\ loadingOverlay' = FALSE
            /\ App_showSuccess("analysis complete")
            /\ notifications' = <<"success">>
            /\ resultsContainer' = r

handleSingleWallEstimation_settled ==
    /\ view = "cv"
    /\ \E req \in BagToSet(inflight), res \in Responses(CVBodies) :
        /\ req.endpoint = "/api/v1/estimate/cv/single-room"
        /\ CV_settle(req, res, displayCVResults(Prop(res.body, "data")), TRUE)
    /\ UNCHANGED <<view, body, notCV, cvVars, readers>>

handleMultiWallEstimation_settled ==
    /\ view = "cv"
    /\ \E req \in BagToSet(inflight), res \in Responses(CVBodies) :
        /\ req.endpoint = "/api/v1/estimate/cv/multi-room"
        /\ CV_settle(req, res,
                     displayMultiWallResults(Prop(res.body, "data")), TRUE)
    /\ UNCHANGED <<view, body, notCV, cvVars, readers>>

\* the success message reads result.data.video_analysis.frames_analyzed
handleVideoEstimation_settled ==
    /\ view = "cv"
    /\ \E req \in BagToSet(inflight), res \in Responses(CVBodies) :
        /\ req.endpoint = "/api/v1/estimate/cv/video"
        /\ LET data == Prop(res.body, "data")
           IN  CV_settle(req, res, displayVideoResults(data),
                         ~Nullish(data)
                            /\ ~Nullish(Prop(data, "video_analysis")))
    /\ UNCHANGED <<view, body, notCV, cvVars, readers>>

CVNext ==
    \/ roomImage_change
    \/ uploadArea_drop
    \/ CV_handleFileSelect_onload
    \/ removeImage_click
    \/ handleModeToggle
    \/ multiWallImages_change
    \/ multiUploadTrigger_drop
    \/ handleMultiWallSelect_onload
    \/ removeWall
    \/ roomVideo_change
    \/ videoUploadTrigger_drop
    \/ handleVideoSelect_loadedmetadata
    \/ removeVideo_click
    \/ handleCVEstimation
    \/ handleSingleWallEstimation_settled
    \/ handleMultiWallEstimation_settled
    \/ handleVideoEstimation_settled

(***************************************************************************)
(* image-estimation.js: displayResults on any JSON body                    *)
(***************************************************************************)
\* what a field of a JSON body can hold; Undef stands for a missing field
FieldValues == {Undef, Null, Num(0), Num(400), Str("400")}
RoomsValues ==
    {Undef, Arr(<<>>), Arr(<<Null>>), Str("none"),
     Arr(<<Obj([estimation |-> Obj([dimensions |->
                Obj([length |-> Num(10), width |-> Num(12),
                     height |-> Num(9)])])])>>)}
Bodies ==
    {Null, EmptyObj} \cup
    {Obj([total_paintable_area |-> a, total_paint_required |-> p,
          total_cost |-> c, rooms |-> r]) :
        a \in FieldValues, p \in FieldValues, c \in FieldValues,
        r \in RoomsValues}

\* bodies that carry a field at its top-level path, its nested path, or both
TopValues == {Undef, Num(0), Num(400), Frac(2469, 2)}
NestedValues == {Undef, Num(0), Num(500)}
NestedBodies ==
    {Obj([total_paintable_area |-> a,
          area_calculation |-> Obj([paintable_area |-> na]),
          total_paint_required |-> q,
          product_breakdown |-> Obj([paint |-> Obj([quantity |-> nq])]),
          total_cost |-> c,
          cost_breakdown |-> Obj([total_cost |-> nc])]) :
        a \in {Undef, Num(0), Num(400)}, na \in NestedValues,
        q \in {Undef, Num(0)}, nq \in {Undef, Num(500)},
        c \in TopValues, nc \in NestedValues}

\* bodies with dimensions at the top level, in the first room, or nowhere
Dims(l, w, h) == Obj([length |-> Num(l), width |-> Num(w), height |-> Num(h)])
DimensionsValues == {Undef, Dims(20, 22, 8), Dims(0, 0, 8), Dims(0, 22, 8)}
Room(estimation) == Obj([estimation |-> estimation])
RoomLists ==
    {Undef, Arr(<<>>),
     Arr(<<Room(Obj([dimensions |-> Dims(10, 12, 9)]))>>),
     Arr(<<Room(Dims(10, 12, 9))>>),
     Arr(<<Room(Undef)>>),
     Arr(<<Room(Obj([dimensions |-> Dims(0, 0, 9)])), Room(Dims(10, 12, 9))>>),
     Arr(<<Room(Dims(10, 12, 9)), Room(Dims(11, 13, 9)), Room(Undef)>>)}
DimensionBodies ==
    {Obj([dimensions |-> d, rooms |-> r, total_paintable_area |-> a]) :
        d \in DimensionsValues, r \in RoomLists,
        a \in {Undef, Num(0), Num(400)}}

\* a body as it is, or wrapped as {data: body}
Envelope(b) == Obj([data |-> b])
AllBodies ==
    LET plain == Bodies \cup NestedBodies \cup DimensionBodies
    IN  plain \cup {Envelope(b) : b \in plain}

\* displayResults(body), with nothing around it to catch what it raises
displayResults_call ==
    /\ view = "normalize"
    /\ resultsContainer = NoResult
    /\ resultsContainer' = Image_displayResults(body)
    /\ UNCHANGED <<view, body, notifications, imageVars, notImage, readers, inflight,
                   loadingOverlay, toast>>

(***************************************************************************)
(* Video page: displayResults                                              *)
(***************************************************************************)
\* Math.round: the nearest integer, halves towards +Infinity
MathRound(x) ==
    IF x.t = "num" THEN Num((2 * x.n + x.d) \div (2 * x.d)) ELSE x

\* typeof v === 'number'
IsNumberType(v) == v.t \in {"num", "nan", "inf"}

\* the confidence the page goes on with: confidence.overall_confidence, or
\* the confidence value itself, or the fixed default
Video_overallConfidence(data) ==
    LET confidence ==
            Or(Or(Prop(data, "confidence"), Prop(data, "detection_confidence")),
               EmptyObj)
        overallConfidence ==
            Or(Or(Prop(confidence, "overall_confidence"), confidence), Num(0))
    IN  IF ToNumber(overallConfidence).t = "nan"
           \/ ~IsNumberType(overallConfidence)
        THEN IF Truthy(OptProp(Prop(data, "vision_api_result"), "used"))
             THEN Frac(90, 100)
             ELSE Frac(70, 100)
        ELSE overallConfidence

\* the level and the expected error of an error percentage
Video_varianceLevel(errorPct) ==
    [thrown |-> FALSE,
     level |-> CASE Le(errorPct, 5) -> "Excellent"
                 [] ~Le(errorPct, 5) /\ Le(errorPct, 8) -> "Good"
                 [] ~Le(errorPct, 8) /\ Le(errorPct, 15) -> "Medium"
                 [] OTHER -> "Low",
     expectedError |-> ToFixed(errorPct, 1)]

\* the level and the expected error of a confidence percent
Video_percentLevel(confidencePercent) ==
    LET Level(l, e) ==
            [thrown |-> FALSE, level |-> l,
             expectedError |-> ToFixed(Num(e), 0)]
    IN  CASE Ge(confidencePercent, 90) -> Level("Very High", 5)
          [] ~Ge(confidencePercent, 90) /\ Ge(confidencePercent, 75) ->
                Level("High", 10)
          [] ~Ge(confidencePercent, 75) /\ Ge(confidencePercent, 60) ->
                Level("Medium", 15)
          [] ~Ge(confidencePercent, 60) /\ Ge(confidencePercent, 40) ->
                Level("Low", 20)
          [] OTHER -> Level("Very Low", 30)

\* a variant in which a very high confidence percent overrides the variance
\* data
Video_confidenceLevel_percentFirst(dimensions, confidencePercent) ==
    LET varianceData == Or(Prop(dimensions, "variance"), EmptyObj)
        errorPct == Prop(varianceData, "error_percentage")
    IN  IF errorPct # Undef /\ ~Ge(confidencePercent, 90)
        THEN IF ~HasToFixed(errorPct) THEN Thrown
             ELSE Video_varianceLevel(errorPct)
        ELSE Video_percentLevel(confidencePercent)

\* confidenceLevel and expectedError: from the variance data of the
\* dimensions when it carries an error percentage, else from the percent
Video_confidenceLevel(dimensions, confidencePercent) ==
    LET varianceData == Or(Prop(dimensions, "variance"), EmptyObj)
        errorPct == Prop(varianceData, "error_percentage")
    IN  IF errorPct # Undef
        THEN IF ~HasToFixed(errorPct) THEN Thrown
             ELSE Video_varianceLevel(errorPct)
        ELSE Video_percentLevel(confidencePercent)

\* The record of what the result region of the video page renders, or
\* Thrown when evaluating the function raises a TypeError.
Video_displayResults(data) ==
    IF Nullish(data) THEN Thrown
    ELSE
    LET request == Prop(data, "manual_input_request")
        dimensions ==
            Or(Or(Or(Prop(data, "dimensions"), Prop(data, "room_dimensions")),
                  OptProp(Prop(data, "dimension_analysis"), "dimensions")),
               EmptyObj)
        length == Or(Prop(dimensions, "length"), Str("Auto"))
        width == Or(Prop(dimensions, "width"), Str("Auto"))
        height == Or(Prop(dimensions, "height"), Num(10))
        totalArea ==
            Or(Or(Or(OptProp(Prop(data, "area_calculation"), "paintable_area"),
                     Prop(data, "total_paintable_area")),
                  Prop(data, "total_area")),
               Num(0))
        paintNeeded ==
            Or(Or(Or(OptProp(OptProp(Prop(data, "product_breakdown"), "paint"),
                             "quantity"),
                     Prop(data, "total_paint_required_liters")),
                  Prop(data, "total_paint_liters")),
               Num(0))
        totalCost ==
            Or(Or(OptProp(Prop(data, "cost_breakdown"), "total_cost"),
                  Prop(data, "total_cost")),
               Num(0))
        confidencePercent ==
            MathRound(Times(Video_overallConfidence(data), 100))
        band == Video_confidenceLevel(dimensions, confidencePercent)
        method ==
            Or(Or(Prop(dimensions, "method"), Prop(data, "estimation_mode")),
               Str("unknown"))
        Fixed(v, digits) == IF IsNumberType(v) THEN ToFixed(v, digits) ELSE v
        Positive(v, digits, other) ==
            IF GtZero(v) THEN ToFixed(v, digits) ELSE other
    IN
    IF \/ band = Thrown
       \/ method.t # "str"
       \/ GtZero(totalArea) /\ ~HasToFixed(totalArea)
       \/ GtZero(paintNeeded) /\ ~HasToFixed(paintNeeded)
       \/ GtZero(totalCost) /\ ~HasToFixed(totalCost)
    THEN Thrown
    ELSE [thrown |-> FALSE, shown |-> TRUE,
          manualModal |-> Truthy(OptProp(request, "needs_manual_input")),
          length |-> Fixed(length, 1),
          width |-> Fixed(width, 1),
          height |-> Fixed(height, 1),
          paintableArea |-> Positive(totalArea, 1, Str("N/A")),
          paintRequired |-> Positive(paintNeeded, 2, Str("N/A")),
          confidencePercent |-> confidencePercent,
          confidenceLevel |-> band.level,
          expectedError |-> band.expectedError,
          totalCost |-> Positive(totalCost, 0, Str("0"))]

\* what confidence.overall_confidence can hold
ConfidenceValues ==
    {Null, Num(0), Frac(4, 1000), Frac(39, 100), Frac(40, 100), Frac(59, 100), Frac(60, 100),
     Frac(744, 1000), Frac(75, 100), Frac(896, 1000), Frac(90, 100),
     Frac(92, 100), Num(1)}
ConfidenceFields ==
    {Undef, EmptyObj, Num(0), Frac(92, 100)} \cup
    {Obj([overall_confidence |-> c]) : c \in ConfidenceValues}
\* what dimensions.variance.error_percentage can hold
ErrorPercentages ==
    {Null, Num(0), Num(5), Frac(51, 10), Num(8), Num(15), Num(16)}
VideoDimensions ==
    {Undef, Dims(10, 12, 9)} \cup
    {Obj([variance |-> Obj([error_percentage |-> e])]) :
        e \in ErrorPercentages}
VideoResultBodies ==
    LET plain ==
            {Obj([confidence |-> c, vision_api_result |-> v, dimensions |-> d,
                  total_cost |-> t]) :
                c \in ConfidenceFields, d \in VideoDimensions,
                v \in {Undef, Obj([used |-> [t |-> "bool", v |-> TRUE]])},
                t \in {Undef, Num(5000)}}
    IN  {Null} \cup plain \cup {Envelope(b) : b \in plain}

\* the answer is unwrapped and rendered, with nothing around it to catch
\* what that raises
Video_displayResults_call ==
    /\ view = "videoResults"
    /\ resultsContainer = NoResult
    /\ resultsContainer' =
            IF Nullish(body) THEN Thrown
            ELSE Video_displayResults(Or(Prop(body, "data"), body))
    /\ UNCHANGED <<view, body, notifications, imageVars, notImage, readers, inflight,
                   loadingOverlay, toast>>

(***************************************************************************)
(* manual-input-modal.js                                                   *)
(***************************************************************************)
\* what the user can type into #ceilingHeight
HeightTexts == {"", "0", "20", "1.5"}

\* parseFloat of the value of #ceilingHeight, which holds typed text or the
\* text that toFixed produced
Modal_parseFloat(value) ==
    IF value.text = "fixed" THEN Frac(value.scaled, Pow10(value.digits))
    ELSE parseFloat(value.text)

\* hide(): the class is removed and the form is reset
Modal_hide ==
    /\ modalActive' = FALSE
    /\ ceilingHeight' = EmptyInput

\* onSubmit(callback)
Modal_onSubmit ==
    /\ view = "modal"
    /\ ~onSubmitCallback
    /\ onSubmitCallback' = TRUE
    /\ UNCHANGED <<view, body, notifications, notModal, modalActive,
                   ceilingHeight, confidenceValue, callbackCalls, readers,
                   inflight, loadingOverlay, resultsContainer, toast>>

\* what show() is called with
ModalData ==
    [confidence : {Undef, Num(0), Frac(35, 100), Frac(1, 2)},
     currentEstimate : {Undef, Null, EmptyObj,
                        Obj([height |-> Frac(946, 100)]),
                        Obj([height |-> Num(0)]),
                        Obj([height |-> Frac(4, 100)]),
                        Obj([height |-> Str("10")])}]

\* show(data): the texts are set, the input is pre-filled when the estimate
\* has a height, the modal is shown; a height without toFixed raises before
\* the modal is shown
Modal_show ==
    /\ view = "modal"
    /\ \E data \in ModalData :
        LET confidence == IF data.confidence.t = "undef" THEN Num(0)
                          ELSE data.confidence
            currentEstimate == IF data.currentEstimate.t = "undef" THEN Null
                               ELSE data.currentEstimate
            height == IF Truthy(currentEstimate)
                      THEN Prop(currentEstimate, "height") ELSE Undef
        IN  /\ confidenceValue' = MathRound(Times(confidence, 100))
            /\ IF Truthy(height)
               THEN IF HasToFixed(height)
                    THEN /\ ceilingHeight' = ToFixed(height, 1)
                         /\ modalActive' = TRUE
                    ELSE UNCHANGED <<ceilingHeight, modalActive>>
               ELSE /\ modalActive' = TRUE
                    /\ UNCHANGED ceilingHeight
    /\ UNCHANGED <<view, body, notifications, notModal, onSubmitCallback,
                   callbackCalls, readers, inflight, loadingOverlay,
                   resultsContainer, toast>>

\* the user types into #ceilingHeight
ceilingHeight_input ==
    /\ view = "modal"
    /\ modalActive
    /\ \E text \in HeightTexts : ceilingHeight' = [text |-> text]
    /\ UNCHANGED <<view, body, notifications, notModal, modalActive,
                   confidenceValue, onSubmitCallback, callbackCalls, readers,
                   inflight, loadingOverlay, resultsContainer, toast>>

\* the submit listener with a test for a number in place of the truth test
manualInputForm_submit_anyNumber ==
    /\ view = "modal"
    /\ modalActive
    /\ LET height == Modal_parseFloat(ceilingHeight)
       IN  callbackCalls' =
                IF height.t = "num" /\ onSubmitCallback
                THEN <<[ceiling_height |-> height, user_provided |-> TRUE]>>
                ELSE <<>>
    /\ Modal_hide
    /\ UNCHANGED <<view, body, notifications, notModal, confidenceValue,
                   onSubmitCallback, readers, inflight, loadingOverlay,
                   resultsContainer, toast>>
\* the submit listener of #manualInputForm
manualInputForm_submit ==
    /\ view = "modal"
    /\ modalActive
    /\ LET height == Modal_parseFloat(ceilingHeight)
       IN  callbackCalls' =
                IF Truthy(height) /\ onSubmitCallback
                THEN <<[ceiling_height |-> height, user_provided |-> TRUE]>>
                ELSE <<>>
    /\ Modal_hide
    /\ UNCHANGED <<view, body, notifications, notModal, confidenceValue,
                   onSubmitCallback, readers, inflight, loadingOverlay,
                   resultsContainer, toast>>

\* the click listener of #modalSkip
modalSkip_click ==
    /\ view = "modal"
    /\ modalActive
    /\ callbackCalls' = IF onSubmitCallback
                        THEN <<[user_provided |-> FALSE, skipped |-> TRUE]>>
                        ELSE <<>>
    /\ Modal_hide
    /\ UNCHANGED <<view, body, notifications, notModal, confidenceValue,
                   onSubmitCallback, readers, inflight, loadingOverlay,
                   resultsContainer, toast>>

ModalNext ==
    \/ Modal_onSubmit
    \/ Modal_show
    \/ ceilingHeight_input
    \/ manualInputForm_submit
    \/ modalSkip_click

(***************************************************************************)
(* The video page                                                          *)
(***************************************************************************)
VideoPageFiles == {"V", "H", "T"}

\* displayVideo(file)
Video_displayVideo(file) ==
    IF ~IsVideo(file)
    THEN /\ toast' = Toast("error", "Invalid File Type")
         /\ UNCHANGED <<uploadedVideo, videoPreview>>
    ELSE IF FileSize(file) > maxVideoSize
    THEN /\ toast' = Toast("error", "File Too Large")
         /\ UNCHANGED <<uploadedVideo, videoPreview>>
    ELSE /\ uploadedVideo' = file
         /\ videoPreview' = TRUE
         /\ toast' = Toast("success", "Video Uploaded")

\* change of #video-input
Video_handleVideoSelect ==
    /\ view = "video"
    /\ \E file \in VideoPageFiles : Video_displayVideo(file)
    /\ UNCHANGED <<view, body, notifications, notVideoPage, timers,
                   progressInterval, nextTimer, progressFill, readers,
                   inflight, loadingOverlay, resultsContainer>>

\* drop on #video-drop-zone, which is displayed while no preview is
Video_handleVideoDrop ==
    /\ view = "video"
    /\ ~videoPreview
    /\ \E file \in VideoPageFiles : Video_displayVideo(file)
    /\ UNCHANGED <<view, body, notifications, notVideoPage, timers,
                   progressInterval, nextTimer, progressFill, readers,
                   inflight, loadingOverlay, resultsContainer>>

\* removeVideo()
removeVideo ==
    /\ view = "video"
    /\ videoPreview
    /\ uploadedVideo' = NoFile
    /\ videoPreview' = FALSE
    /\ UNCHANGED <<view, body, notifications, notVideoPage, timers,
                   progressInterval, nextTimer, progressFill, readers,
                   inflight, loadingOverlay, resultsContainer, toast>>

\* simulateProgress(): a new timer starts at 0 and its id replaces the one
\* window.progressInterval held
simulateProgress ==
    /\ timers' = timers \cup {[id |-> nextTimer, progress |-> 0]}
    /\ progressInterval' = nextTimer
    /\ nextTimer' = nextTimer + 1

\* submit of #video-form: showLoading(true), simulateProgress(), fetch
Video_handleFormSubmit ==
    /\ view = "video"
    /\ IF uploadedVideo = NoFile
       THEN /\ toast' = Toast("warning", "No Video")
            /\ UNCHANGED <<inflight, loadingOverlay, timers, progressInterval,
                           nextTimer, progressFill>>
       ELSE /\ Outstanding < MaxInFlight
            /\ nextTimer <= MaxTimers
            /\ loadingOverlay' = TRUE
            /\ progressFill' = 0
            /\ simulateProgress
            /\ inflight' = inflight (+) SetToBag({
                    Request("/estimate/cv/video", <<uploadedVideo>>, <<>>,
                            NoPayload)})
            /\ UNCHANGED toast
    /\ UNCHANGED <<view, body, notifications, notVideoPage, uploadedVideo,
                   videoPreview, readers, resultsContainer>>

\* whole percent that one tick adds: Math.random() * 10
ProgressSteps == {6, 9}
progressCap == 90

\* one tick of a timer of simulateProgress: at 90 the timer clears itself
simulateProgress_tick ==
    /\ view = "video"
    /\ \E timer \in timers, step \in ProgressSteps :
        LET progress == timer.progress + step
        IN  IF progress >= progressCap
            THEN /\ timers' = timers \ {timer}
                 /\ progressFill' = progressCap
            ELSE /\ timers' = (timers \ {timer})
                                \cup {[timer EXCEPT !.progress = progress]}
                 /\ progressFill' = progress
    /\ UNCHANGED <<view, body, notifications, notVideoPage, uploadedVideo,
                   videoPreview, progressInterval, nextTimer, readers,
                   inflight, loadingOverlay, resultsContainer, toast>>

VideoAnswer ==
    Obj([confidence |-> Obj([overall_confidence |-> Frac(92, 100)]),
         dimensions |-> Dims(10, 12, 9),
         total_cost |-> Num(5000)])
VideoPageBodies == {VideoAnswer, Envelope(VideoAnswer), Null}

\* the rest of handleFormSubmit once fetch settles.  displayResults begins
\* with clearInterval(window.progressInterval); it is reached on a 2xx
\* answer with a body only.  No code of the page creates window.manualModal.
Video_handleFormSubmit_settled ==
    /\ view = "video"
    /\ \E req \in BagToSet(inflight), res \in Responses(VideoPageBodies) :
        /\ inflight' = inflight (-) SetToBag({req})
        /\ IF res.outcome = "ok" /\ ~Nullish(res.body)
           THEN LET r == Video_displayResults(Or(Prop(res.body, "data"),
                                                 res.body))
                IN  /\ timers' = {timer \in timers :
                                    timer.id # progressInterval}
                    /\ IF r.thrown
                       THEN /\ toast' = Toast("error", "Analysis Failed")
                            /\ UNCHANGED resultsContainer
                       ELSE /\ resultsContainer' = r
                            /\ toast' = Toast("success", "Analysis Complete")
           ELSE /\ toast' = Toast("error", "Analysis Failed")
                /\ UNCHANGED <<resultsContainer, timers>>
        /\ notifications' = <<toast'.type>>
        /\ loadingOverlay' = FALSE
    /\ UNCHANGED <<view, body, notVideoPage, uploadedVideo, videoPreview,
                   progressInterval, nextTimer, progressFill, readers>>

VideoPageNext ==
    \/ Video_handleVideoSelect
    \/ Video_handleVideoDrop
    \/ removeVideo
    \/ Video_handleFormSubmit
    \/ simulateProgress_tick
    \/ Video_handleFormSubmit_settled

(***************************************************************************)
(* The pages                                                               *)
(***************************************************************************)
vars == <<view, body, currentMode, uploadedImages, singlePreviewImg, singlePreview,
          singleDropZone, wallGrid, multiPreviewGrid, multiDropZone,
          manualForm, uploadedFile, blueprintPreviewImg, blueprintPreview,
          blueprintUploadZone, uploadMode, selectedImage, previewImg,
          imagePreview, uploadArea, selectedWalls, wallPreviewsGrid,
          wallPreviewsContainer, selectedVideo, videoSource,
          videoPreviewContainer, videoUploadArea, cvSubmitDisabled, toggles,
          modalActive, ceilingHeight, confidenceValue, onSubmitCallback,
          callbackCalls, uploadedVideo, videoPreview, timers,
          progressInterval, nextTimer, progressFill, readers, inflight, loadingOverlay,
          resultsContainer, toast, notifications>>

Views == {"image", "manual", "manualNew", "blueprint", "cv"}

\* the state of a page that has just loaded
FreshElements ==
    /\ uploadedImages = <<>>
    /\ singlePreviewImg = NoFile
    /\ singlePreview = FALSE
    /\ singleDropZone = TRUE
    /\ wallGrid = <<>>
    /\ multiPreviewGrid = FALSE
    /\ multiDropZone = TRUE
    /\ uploadedFile = NoFile
    /\ blueprintPreviewImg = NoFile
    /\ blueprintPreview = FALSE
    /\ blueprintUploadZone = TRUE
    /\ selectedImage = NoFile
    /\ previewImg = NoFile
    /\ imagePreview = FALSE
    /\ uploadArea = TRUE
    /\ selectedWalls = <<>>
    /\ wallPreviewsGrid = <<>>
    /\ wallPreviewsContainer = FALSE
    /\ selectedVideo = NoFile
    /\ videoSource = NoFile
    /\ videoPreviewContainer = FALSE
    /\ videoUploadArea = TRUE
    /\ cvSubmitDisabled = TRUE
    /\ toggles = 0
    /\ readers = EmptyBag
    /\ inflight = EmptyBag
    /\ loadingOverlay = FALSE
    /\ resultsContainer = NoResult
    /\ toast = NoToast
    /\ notifications = <<>>
    /\ modalActive = FALSE
    /\ ceilingHeight = EmptyInput
    /\ confidenceValue = [text |-> "--"]
    /\ onSubmitCallback = FALSE
    /\ callbackCalls = <<>>
    /\ uploadedVideo = NoFile
    /\ videoPreview = FALSE
    /\ timers = {}
    /\ progressInterval = 0
    /\ nextTimer = 1
    /\ progressFill = 0
Fresh ==
    /\ uploadMode = "single"
    /\ FreshElements

Init ==
    /\ view \in Views
    /\ body = Null
    /\ currentMode \in (IF view = "image" THEN {"single", "multi"}
                        ELSE {"single"})
    /\ manualForm \in (IF view \in {"manual", "manualNew"} THEN ManualForms
                       ELSE {NoForm})
    /\ Fresh

Next == ImageNext \/ ManualNext \/ ManualNewNext \/ BlueprintNext \/ CVNext

Spec == Init /\ [][Next]_vars

\* displayResults as a function of the body
InitNormalize ==
    /\ view = "normalize"
    /\ body \in AllBodies
    /\ currentMode = "single"
    /\ manualForm = NoForm
    /\ Fresh
SpecNormalize == InitNormalize /\ [][displayResults_call]_vars

\* displayResults of the video page as a function of the body
InitVideoResults ==
    /\ view = "videoResults"
    /\ body \in VideoResultBodies
    /\ currentMode = "single"
    /\ manualForm = NoForm
    /\ Fresh
SpecVideoResults == InitVideoResults /\ [][Video_displayResults_call]_vars

\* displayMultiWallResults as a function of the rooms of the answer
MaxRooms == 3
WallRooms ==
    {Room(Obj([dimensions |-> Dims(10, 12, 9)])),
     Room(Obj([dimensions |-> Obj([length |-> Num(11), width |-> Num(13)])])),
     Room(Obj([dimensions |-> Dims(0, 12, 8)])),
     Room(EmptyObj)}
MultiWallBody(rooms) ==
    Obj([data |-> Obj([
        rooms |-> rooms,
        total_paintable_area |-> Num(400),
        total_paint_required |-> Num(12),
        total_summary |-> Obj([total_rooms |-> Num(1)]),
        total_cost |-> Num(5000)])])
MultiWallBodies ==
    {MultiWallBody(Undef)} \cup
    {MultiWallBody(Arr(rooms)) :
        rooms \in UNION {[1..n -> WallRooms] : n \in 0..MaxRooms}}
displayMultiWallResults_call ==
    /\ view = "multiWallResults"
    /\ resultsContainer = NoResult
    /\ resultsContainer' = displayMultiWallResults(Prop(body, "data"))
    /\ UNCHANGED <<view, body, notifications, imageVars, notImage, readers, inflight,
                   loadingOverlay, toast>>
InitMultiWallResults ==
    /\ view = "multiWallResults"
    /\ body \in MultiWallBodies
    /\ currentMode = "single"
    /\ manualForm = NoForm
    /\ Fresh
SpecMultiWallResults ==
    InitMultiWallResults /\ [][displayMultiWallResults_call]_vars

\* the modal on its own
InitModal ==
    /\ view = "modal"
    /\ body = Null
    /\ currentMode = "single"
    /\ manualForm = NoForm
    /\ Fresh
SpecModal == InitModal /\ [][ModalNext]_vars

\* the video page on its own
InitVideoPage ==
    /\ view = "video"
    /\ body = Null
    /\ currentMode = "single"
    /\ manualForm = NoForm
    /\ Fresh
SpecVideoPage == InitVideoPage /\ [][VideoPageNext]_vars

\* one page at a time
InitImage == Init /\ view = "image"
SpecImage == InitImage /\ [][ImageNext]_vars
InitManual == Init /\ view = "manual"
SpecManual == InitManual /\ [][ManualNext]_vars
InitManualNew == Init /\ view = "manualNew"
SpecManualNew == InitManualNew /\ [][ManualNewNext]_vars
InitBlueprint == Init /\ view = "blueprint"
SpecBlueprint == InitBlueprint /\ [][BlueprintNext]_vars
InitCV == Init /\ view = "cv"
SpecCV == InitCV /\ [][CVNext]_vars
\* the tabbed view once the multi button has been clicked on the page that
\* has just loaded; toggles counts the clicks after that one
InitCVMulti ==
    /\ view = "cv"
    /\ body = Null
    /\ currentMode = "single"
    /\ manualForm = NoForm
    /\ uploadMode = "multi"
    /\ FreshElements
SpecCVMulti == InitCVMulti /\ [][CVNext]_vars

(***************************************************************************)
(* Properties                                                              *)
(***************************************************************************)

\* C1: between a submit and the arrival of its answer at most one request
\* is outstanding for the view, whatever the number of submit events.
C1_AtMostOneOutstanding == Outstanding <= 1

\* C2: in a single-file view, once no preview load is pending, the preview
\* on display is the one of the stored, last selected file, whatever the
\* order in which the loads of two selections completed.
C2_PreviewIsLastSelected ==
    (/\ view = "cv"
     /\ selectedImage # NoFile
     /\ imagePreview
     /\ \A r \in BagToSet(readers) : r.kind # "cvSingle")
        => previewImg = selectedImage

\* C3: a preview load that completes after the selection was cleared is
\* discarded: the selection stays empty, the preview stays hidden and the
\* upload zone stays visible.
C3_LateLoadDiscarded ==
    [][(displayBlueprint_onload /\ uploadedFile = NoFile)
        => (/\ uploadedFile' = NoFile
            /\ ~blueprintPreview'
            /\ blueprintUploadZone')]_vars

\* C4: in multi-image mode, once every preview load has completed, the
\* tiles on display are the selected files in selection order, one tile per
\* file.
C4_TilesInSelectionOrder ==
    (view = "image" /\ currentMode = "multi" /\ Pending = 0)
        => /\ Len(wallGrid) = Len(uploadedImages)
           /\ \A k \in 1..Len(wallGrid) :
                /\ wallGrid[k].index = k - 1
                /\ wallGrid[k].file = uploadedImages[k]

\* C5: a multi-image submit attempted while the selection holds fewer than
\* 2 or more than 4 files issues no request.
C5_CountOutsideRangeRejected ==
    [][(/\ handleCVEstimation
        /\ uploadMode = "multi"
        /\ (Len(selectedWalls) < 2 \/ Len(selectedWalls) > 4))
        => inflight' = inflight]_vars

\* C6: in every mode a submit whose validation fails (no file selected, too
\* few files, manual dimensions rejected) issues no request.
C6_NoRequestWhenInvalid ==
    [][(\/ handleSingleSubmit /\ Len(uploadedImages) = 0
        \/ handleMultiSubmit /\ Len(uploadedImages) < 2
        \/ Blueprint_handleFormSubmit /\ uploadedFile = NoFile
        \/ handleManualEstimation
                /\ ~validateManualForm(getManualFormData).ok
        \/ handleCVEstimation /\ uploadMode = "single"
                /\ selectedImage = NoFile
        \/ handleCVEstimation /\ uploadMode = "multi"
                /\ Len(selectedWalls) < 2
        \/ handleCVEstimation /\ uploadMode = "video"
                /\ selectedVideo = NoFile)
        => inflight' = inflight]_vars

\* a validation warning is on display and nothing was sent
C6_Witness ==
    /\ view = "image"
    /\ toast = Toast("warning", "No Image")
    /\ Outstanding = 0

C8_NormalizationTotal ==
    view = "normalize"
        => /\ ~resultsContainer.thrown
           /\ resultsContainer.shown =>
                \A k \in {"paintableArea", "paintRequired", "length",
                          "width", "height", "totalCost"} :
                    resultsContainer[k].text # "NaN"

\* the form holds a length and a width in (0,100] and a height in (0,20]
InRangeForm ==
    LET l == parseFloat(manualForm.length)
        w == parseFloat(manualForm.width)
        h == parseFloat(manualForm.height)
    IN  /\ Gt(l, 0) /\ Le(l, 100)
        /\ Gt(w, 0) /\ Le(w, 100)
        /\ Gt(h, 0) /\ Le(h, 20)

\* C9: the manual validator accepts every form whose length and width are in
\* (0,100] and whose height is in (0,20], the boundaries 100 and 20 included.
C9_InRangeAccepted ==
    (view = "manual" /\ InRangeForm)
        => validateManualForm(getManualFormData).ok

\* the form at the boundaries was submitted and its request is on its way
C9_Witness ==
    /\ view = "manual"
    /\ manualForm.length = "100"
    /\ manualForm.width = "100"
    /\ manualForm.height = "20"
    /\ Outstanding = 1

\* a count that is negative or not an integer
BadCount(text) ==
    LET x == parseFloat(text)
    IN  x.t = "num" /\ (x.n < 0 \/ x.d # 1)

\* C10: a manual submission is rejected, and nothing is sent, whenever a
\* dimension is missing, not a number, <= 0 or above its bound, or a door or
\* window count is negative or not an integer.
C10_InvalidRejected ==
    [][(/\ handleManualEstimation
        /\ \/ ~InRangeForm
           \/ BadCount(manualForm.num_doors)
           \/ BadCount(manualForm.num_windows))
        => inflight' = inflight]_vars

\* C11: unwrapping the envelope is transparent: for a body without a data
\* property, displayResults renders {data: body} as it renders the body
\* itself (a total_cost of 1234.5 included).
HasData(b) == b.t = "obj" /\ "data" \in DOMAIN b.f /\ b.f.data # Undef
C11_EnvelopeTransparent ==
    (view = "normalize" /\ resultsContainer # NoResult /\ ~HasData(body))
        => Image_displayResults(Envelope(body)) = resultsContainer

\* C12: paintable area, paint quantity and total cost each show the value of
\* the first candidate path (top-level field, then nested field) that holds
\* a number, a genuine 0 included, and the default 0 only when neither does.
IsNumber(v) == v.t = "num"
FirstNumber(top, nested) ==
    IF IsNumber(top) THEN top ELSE IF IsNumber(nested) THEN nested ELSE Num(0)
C12_FirstNumberWins ==
    (view = "normalize" /\ resultsContainer # NoResult
        /\ ~resultsContainer.thrown)
        => LET data == Image_data(body)
           IN  /\ resultsContainer.paintableArea =
                    ToFixed(FirstNumber(Prop(data, "total_paintable_area"),
                        OptProp(Prop(data, "area_calculation"),
                                "paintable_area")), 1)
               /\ resultsContainer.paintRequired =
                    ToFixed(FirstNumber(Prop(data, "total_paint_required"),
                        OptProp(OptProp(Prop(data, "product_breakdown"),
                                        "paint"), "quantity")), 2)
               /\ resultsContainer.totalCost =
                    ToFixed(FirstNumber(Prop(data, "total_cost"),
                        OptProp(Prop(data, "cost_breakdown"),
                                "total_cost")), 0)

\* C13: with a non-empty rooms array the dimensions shown are those of the
\* first room's estimation.dimensions (or of estimation itself when it has
\* none) and a top-level dimensions object is ignored; the top-level
\* dimensions are shown only when rooms is absent or empty.  (When length
\* and width both resolve to 0 and an area is known, the area estimate is
\* shown instead: C14.)
ExpectedDimensions(data) ==
    LET rooms == Prop(data, "rooms")
        estimation == Prop(rooms.e[1], "estimation")
    IN  IF rooms.t = "arr" /\ Len(rooms.e) > 0
        THEN IF Truthy(OptProp(estimation, "dimensions"))
             THEN Prop(estimation, "dimensions")
             ELSE IF Truthy(estimation) THEN estimation ELSE EmptyObj
        ELSE IF Truthy(Prop(data, "dimensions"))
             THEN Prop(data, "dimensions") ELSE EmptyObj
Shown(v) == IF GtZero(v) THEN ToFixed(v, 1) ELSE Auto
C13_FirstRoomDimensions ==
    (view = "normalize" /\ resultsContainer # NoResult
        /\ ~resultsContainer.thrown
        /\ Prop(Image_data(body), "rooms").t \in {"undef", "null", "arr"})
        => LET data == Image_data(body)
               dims == ExpectedDimensions(data)
               l == Or(Prop(dims, "length"), Num(0))
               w == Or(Prop(dims, "width"), Num(0))
               h == Or(Prop(dims, "height"), Num(0))
               area == Prop(data, "total_paintable_area")
               nested == OptProp(Prop(data, "area_calculation"),
                                 "paintable_area")
           IN  (GtZero(l) \/ GtZero(w) \/ ~(Truthy(area) \/ Truthy(nested)))
                 => /\ resultsContainer.length = Shown(l)
                    /\ resultsContainer.width = Shown(w)
                    /\ resultsContainer.height = Shown(h)
\* rooms and top-level dimensions both present: the first room's are shown
C13_Witness ==
    /\ view = "normalize"
    /\ body = Obj([dimensions |-> Dims(20, 22, 8),
                   rooms |-> Arr(<<Room(Obj([dimensions |->
                                              Dims(10, 12, 9)]))>>),
                   total_paintable_area |-> Num(400)])
    /\ resultsContainer # NoResult
    /\ resultsContainer.length = ToFixed(Num(10), 1)
    /\ resultsContainer.width = ToFixed(Num(12), 1)

\* C14: the dimensions are estimated from the area exactly when the resolved
\* length and width are both 0 and the paintable area shown is a non-zero
\* number; then length = width = area / (roomCount * 10) and height = 10,
\* roomCount being the number of rooms, or 1 when there are none.
C14_AreaFallback ==
    (view = "normalize" /\ resultsContainer # NoResult
        /\ ~resultsContainer.thrown
        /\ Prop(Image_data(body), "rooms").t \in {"undef", "null", "arr"})
        => LET data == Image_data(body)
               dims == ExpectedDimensions(data)
               rooms == Prop(data, "rooms")
               l == Or(Prop(dims, "length"), Num(0))
               w == Or(Prop(dims, "width"), Num(0))
               h == Or(Prop(dims, "height"), Num(0))
               area == Or(Prop(data, "total_paintable_area"),
                          OptProp(Prop(data, "area_calculation"),
                                  "paintable_area"))
               roomCount == IF rooms.t = "arr" /\ Len(rooms.e) > 0
                            THEN Len(rooms.e) ELSE 1
               applied == IsZero(l) /\ IsZero(w) /\ IsNumber(area)
                          /\ area.n # 0
           IN  IF applied
               THEN LET side == Frac(area.n, area.d * roomCount * 10)
                    IN  /\ resultsContainer.length = Shown(side)
                        /\ resultsContainer.width = Shown(side)
                        /\ resultsContainer.height = Shown(Num(10))
               ELSE /\ resultsContainer.length = Shown(l)
                    /\ resultsContainer.width = Shown(w)
                    /\ resultsContainer.height = Shown(h)
\* {total_paintable_area: 400} alone renders 40.0 x 40.0 x 10.0
C14_Witness ==
    /\ view = "normalize"
    /\ resultsContainer # NoResult
    /\ body = Obj([dimensions |-> Undef, rooms |-> Undef,
                   total_paintable_area |-> Num(400)])
    /\ resultsContainer.length = ToFixed(Num(40), 1)
    /\ resultsContainer.width = ToFixed(Num(40), 1)
    /\ resultsContainer.height = ToFixed(Num(10), 1)

\* the body the video page works on, the confidence the backend supplied in
\* it (confidence.overall_confidence, or confidence itself when it is a
\* number) and the error percentage of its variance data
VideoData == Or(Prop(body, "data"), body)
SuppliedConfidence ==
    LET confidence == Prop(VideoData, "confidence")
    IN  IF IsNumber(confidence) THEN confidence
        ELSE OptProp(confidence, "overall_confidence")
SuppliedErrorPercentage ==
    OptProp(OptProp(Prop(VideoData, "dimensions"), "variance"),
            "error_percentage")
VideoShown ==
    /\ view = "videoResults"
    /\ body # Null
    /\ resultsContainer # NoResult
    /\ ~resultsContainer.thrown
PercentLevel(p) ==
    IF p >= 90 THEN "Very High"
    ELSE IF p >= 75 THEN "High"
    ELSE IF p >= 60 THEN "Medium"
    ELSE IF p >= 40 THEN "Low"
    ELSE "Very Low"

\* C15: without variance data the confidence percent shown is
\* round(100 * overall_confidence) and the level is Very High from 90,
\* High from 75, Medium from 60, Low from 40 and Very Low below 40.
C15_PercentAndLevel ==
    (VideoShown /\ SuppliedErrorPercentage = Undef
        /\ IsNumber(SuppliedConfidence))
        => LET p == (2 * 100 * SuppliedConfidence.n + SuppliedConfidence.d)
                        \div (2 * SuppliedConfidence.d)
           IN  /\ resultsContainer.confidencePercent = Num(p)
               /\ resultsContainer.confidenceLevel = PercentLevel(p)

\* C16: the default confidence (0.90 with the vision-API flag, else 0.70) is
\* used if and only if the supplied confidence is not a number; a supplied
\* number, 0 included, is reported as it is, 0 as 0% Very Low.
C16_DefaultOnlyWhenNotFinite ==
    (VideoShown /\ SuppliedErrorPercentage = Undef)
        => IF IsNumber(SuppliedConfidence)
           THEN resultsContainer.confidencePercent =
                    MathRound(Times(SuppliedConfidence, 100))
                /\ (SuppliedConfidence = Num(0)
                        => resultsContainer.confidenceLevel = "Very Low")
           ELSE resultsContainer.confidencePercent =
                    IF Truthy(OptProp(Prop(VideoData, "vision_api_result"),
                                      "used"))
                    THEN Num(90) ELSE Num(70)

\* C17: when the variance data carries an error percentage the level and the
\* expected error come from it alone (up to 5 Excellent, up to 8 Good, up to
\* 15 Medium, else Low), whatever the confidence percent; when it carries
\* none they come from the confidence percent alone.
ErrorLevel(e) ==
    IF e.n <= 5 * e.d THEN "Excellent"
    ELSE IF e.n <= 8 * e.d THEN "Good"
    ELSE IF e.n <= 15 * e.d THEN "Medium"
    ELSE "Low"
PercentError(p) ==
    IF p >= 90 THEN 5
    ELSE IF p >= 75 THEN 10
    ELSE IF p >= 60 THEN 15
    ELSE IF p >= 40 THEN 20
    ELSE 30
C17_OneMappingDecides ==
    VideoShown
        => IF SuppliedErrorPercentage # Undef
           THEN /\ IsNumber(SuppliedErrorPercentage)
                /\ resultsContainer.confidenceLevel =
                        ErrorLevel(SuppliedErrorPercentage)
                /\ resultsContainer.expectedError =
                        ToFixed(SuppliedErrorPercentage, 1)
           ELSE /\ resultsContainer.confidenceLevel =
                        PercentLevel(resultsContainer.confidencePercent.n)
                /\ resultsContainer.expectedError =
                        ToFixed(Num(PercentError(
                            resultsContainer.confidencePercent.n)), 0)
\* an error percentage of 16 next to a confidence of 92%: the level is Low
C17_Witness ==
    /\ VideoShown
    /\ SuppliedErrorPercentage = Num(16)
    /\ resultsContainer.confidencePercent = Num(92)
    /\ resultsContainer.confidenceLevel = "Low"
    /\ resultsContainer.expectedError = ToFixed(Num(16), 1)

\* C18: a file picked or dropped on the blueprint page becomes the selection
\* if and only if its type is an image type or application/pdf and its size
\* is at most 10 MB (10 MB itself included).
AcceptableBlueprint(f) ==
    /\ IsImage(f) \/ FileType(f) = "application/pdf"
    /\ FileSize(f) <= 10 * 1024 * 1024
C18_AcceptedIffTypeAndSize ==
    [][\A f \in BlueprintFiles :
        ((Blueprint_handleFileSelect \/ handleFileDrop) /\ displayBlueprint(f))
            => (uploadedFile' = f <=> AcceptableBlueprint(f))]_vars

\* C19: no request of the video mode carries a video longer than 30
\* seconds, however the selection, the arrival of the metadata and the
\* submit are ordered.
C19_NoLongVideoSubmitted ==
    \A req \in BagToSet(inflight) :
        req.endpoint = "/api/v1/estimate/cv/video"
            => \A k \in 1..Len(req.files) : Duration(req.files[k]) <= 30

\* C20: a multi-image request carries exactly one descriptor per attached
\* image, in the order of the images, and the i-th descriptor is named
\* "Wall i", whatever additions, preview loads and removals came before.
MultiRoomEndpoints == {"/estimate/cv/multi-room", "/api/v1/estimate/cv/multi-room"}
C20_OneDescriptorPerImage ==
    \A req \in BagToSet(inflight) :
        req.endpoint \in MultiRoomEndpoints
            => /\ Len(req.room_data) = Len(req.files)
               /\ \A i \in 1..Len(req.files) : req.room_data[i] = i
\* the submit step sends the attached images themselves, in their order
C20_Witness ==
    /\ view = "cv"
    /\ Len(selectedWalls) = 2
    /\ \E req \in BagToSet(inflight) :
        /\ req.endpoint \in MultiRoomEndpoints
        /\ req.files = [k \in 1..2 |-> selectedWalls[k].file]
        /\ req.room_data = <<1, 2>>

\* C21: when the backend answers a submission with a non-2xx status, the
\* error notification of that submission carries the body's message when it
\* has one, else its detail when it has one, else a generic message.
BodyMessage(b) ==
    IF Prop(b, "message").t = "str" THEN Prop(b, "message").v
    ELSE IF Prop(b, "detail").t = "str" THEN Prop(b, "detail").v
    ELSE "generic"
IsGeneric(title) == \A b \in ErrorBodies : title # BodyMessage(b)
C21_ErrorCarriesBodyMessage ==
    [][\A req \in BagToSet(inflight), b \in ErrorBodies :
        (/\ handleSingleSubmit_settled \/ handleMultiSubmit_settled
         /\ Image_settle(req, [outcome |-> "httpError", body |-> b]))
            => /\ toast'.type = "error"
               /\ IF BodyMessage(b) = "generic" THEN IsGeneric(toast'.title)
                  ELSE toast'.title = BodyMessage(b)]_vars

\* C22: when a submission fails with an exception that is not an HTTP error
\* answer (no answer, a body that is not JSON, an exception while the result
\* is built), the notification is a fixed text: it never shows the message
\* of the exception, so failures that differ only in that message look the
\* same to the user.
ExceptionMessages == {"Failed to fetch", "Unexpected token", "TypeError"}
C22_ExceptionDetailNotShown ==
    [][(Outstanding' < Outstanding /\ toast'.type = "error")
            => toast'.title \notin ExceptionMessages]_vars

\* C23: in the tabbed view, once no preview load is pending, only the active
\* mode holds files: the selections of the other modes are empty, whatever
\* the order of mode switches, selections and load completions was.
C23_OnlyActiveModeHoldsFiles ==
    (view = "cv" /\ Pending = 0)
        => /\ uploadMode # "single" => selectedImage = NoFile
           /\ uploadMode # "multi" => selectedWalls = <<>>
           /\ uploadMode # "video" => selectedVideo = NoFile

\* C24: the multi-image selection never holds more than 4 files: an addition
\* that would bring it above 4 is refused as a whole, also when additions
\* are made before the preview loads of earlier ones have completed.
C24_AtMostFourImages ==
    /\ Len(uploadedImages) <= 4
    /\ Len(selectedWalls) <= 4

\* C25: in the multi-wall result view each averaged dimension is the sum of
\* that dimension over the returned rooms, an absent value counted as 0,
\* divided by the number of rooms, and it is a finite number for every rooms
\* array, an empty or absent one included.
ReturnedRooms ==
    LET rooms == Prop(Prop(body, "data"), "rooms")
    IN  IF rooms.t = "arr" THEN rooms.e ELSE <<>>
RoomDimension(room, dim) ==
    LET v == Prop(Prop(Prop(room, "estimation"), "dimensions"), dim)
    IN  IF v.t = "num" THEN v ELSE Num(0)
RECURSIVE Total(_, _)
Total(rooms, dim) ==
    IF rooms = <<>> THEN Num(0)
    ELSE LET a == RoomDimension(Head(rooms), dim)
             b == Total(Tail(rooms), dim)
         IN  Frac(a.n * b.d + b.n * a.d, a.d * b.d)
C25_AveragesFinite ==
    (view = "multiWallResults" /\ resultsContainer # NoResult)
        => /\ ~resultsContainer.thrown
           /\ \A dim \in {"length", "width", "height"} :
                /\ resultsContainer[dim].text = "fixed"
                /\ ReturnedRooms # <<>> =>
                    resultsContainer[dim] =
                        ToFixed(Div(Total(ReturnedRooms, dim),
                                    Num(Len(ReturnedRooms))), 1)

\* C26: in the tabbed view the submit control is enabled only if the
\* selection of the active mode is valid: a stored image in single mode, at
\* least 2 stored walls in multi mode, a stored video in video mode, for
\* every interleaving of selections, removals, mode switches and completions
\* of preview loads.
ActiveSelectionValid ==
    CASE uploadMode = "single" -> selectedImage # NoFile
      [] uploadMode = "multi" -> Len(selectedWalls) >= 2
      [] uploadMode = "video" -> selectedVideo # NoFile
      [] OTHER -> FALSE
C26_SubmitEnabledOnlyIfValid ==
    (view = "cv" /\ ~cvSubmitDisabled) => ActiveSelectionValid

\* C27: the loading indicator is shown exactly while a request of the view
\* is in flight: visible in every state with an outstanding request, hidden
\* in every state without one, also when a second submission starts before
\* the first has completed.
C27_LoadingIffInFlight == loadingOverlay <=> Outstanding > 0

\* C28: a submission whose request has settled has shown exactly one outcome
\* notification, a success or an error, never both: a success notification
\* is never followed by an error notification of the same submission.
C28_OneOutcomeNotification ==
    [][Outstanding' < Outstanding
            => notifications' \in {<<"success">>, <<"error">>}]_vars

\* C29: once the modal is shown, a submit or a skip leaves it hidden with
\* its form reset and calls the registered callback at most once: a skip
\* calls it exactly once with skipped = true and user_provided = false, a
\* submit calls it, with the entered ceiling height and user_provided =
\* true, exactly when the entered value parses to a number that is not 0.
\* Without a registered callback nothing is called.
EnteredHeight == Modal_parseFloat(ceilingHeight)
C29_ModalListeners ==
    [][(manualInputForm_submit \/ modalSkip_click)
        => /\ ~modalActive'
           /\ ceilingHeight' = EmptyInput
           /\ Len(callbackCalls') <= 1
           /\ ~onSubmitCallback => callbackCalls' = <<>>
           /\ (modalSkip_click /\ onSubmitCallback)
                => callbackCalls' = <<[user_provided |-> FALSE,
                                       skipped |-> TRUE]>>
           /\ (manualInputForm_submit /\ onSubmitCallback)
                => callbackCalls' =
                    IF EnteredHeight.t = "num" /\ EnteredHeight.n # 0
                    THEN <<[ceiling_height |-> EnteredHeight,
                            user_provided |-> TRUE]>>
                    ELSE <<>>]_vars
\* a submit of the typed height 20 has called the callback and hidden the
\* modal
C29_Witness ==
    /\ view = "modal"
    /\ ~modalActive
    /\ ceilingHeight = EmptyInput
    /\ callbackCalls = <<[ceiling_height |-> Num(20), user_provided |-> TRUE]>>

\* C30: in the video view no simulated-progress timer runs once the
\* submission that started it has finished, with success or with failure:
\* the timers that run are at most as many as the requests outstanding, and
\* at most one runs at any time.
C30_NoTimerOutlivesSubmission ==
    view = "video"
        => /\ Cardinality(timers) <= Outstanding
           /\ Cardinality(timers) <= 1
====
